---------------------------- MODULE Spec2Model ----------------------------
(***************************************************************************)
(* LegalX secure team invitations: InviteService (inviteService.ts),       *)
(* TeamService (teamService.ts), CryptoService (cryptoService.ts) and the  *)
(* Cloud Functions of functions/src/index.ts, over a Firestore-like        *)
(* document store.                                                         *)
(*                                                                         *)
(* Every service method is an async function: it suspends at each store    *)
(* read or write (await).  A call in flight occupies a slot of `calls`;    *)
(* one action of this module is the code that runs between two awaits,     *)
(* so calls in different slots interleave exactly at the awaits.           *)
(***************************************************************************)
EXTENDS Integers, Sequences, FiniteSets, TLC

VARIABLES
    teams,        \* collection teams/{teamId}
    members,      \* subcollections teams/{teamId}/members/{memberId}
    userTeams,    \* subcollections users/{uid}/teams/{refId}
    invitations,  \* collection invitations/{inviteId}
    links,        \* InviteLinks handed out so far, per invitation, in issue order
    now,          \* wall clock (new Date()), in hours
    nextAuto,     \* next auto-generated document id (doc(collection(...)))
    nextToken,    \* next value drawn by the CSPRNG
    calls,        \* the service calls in flight, one per slot
    pending,      \* localStorage['legalx_pending_invite'] of the visitor's browser
    session,      \* the account signed in in the visitor's browser
    hook          \* useInviteProcessor mounted in the visitor's browser:
                  \*   processing  the state set by setProcessing
                  \*   subscribed  the value of processing the subscribed listener closed over
                  \*   notify      the account of a sign-in whose callback is still to run
                  \*   submitted   the accepts made so far for the PendingInvite now cached

vars == <<teams, members, userTeams, invitations, links, now, nextAuto, nextToken, calls,
          pending, session, hook>>
store == <<teams, members, userTeams, invitations>>

----------------------------------------------------------------------------
(* Bounds of the model *)

MaxTeams == 1
MaxInvites == 2
MaxTokens == 2
MaxMemberDocs == 3
MaxTicks == 2
MaxSubmits == 2
MaxHours == 2


Slots == {1, 2}

----------------------------------------------------------------------------
(* Identities and inputs *)

NoUser == "nobody"
Users == {"u1", "u2", "u3"}
\* the accounts that found a team
Founders == {"u1"}

\* An email address is modelled by its local name and by the two properties
\* that toLowerCase() and trim() erase.
Email(n, up, pd) == [name |-> n, upper |-> up, pad |-> pd]
NoEmail == Email("", FALSE, FALSE)

\* auth.currentUser.email of each account
UserEmail(u) ==
    CASE u = "u1" -> Email("o", FALSE, FALSE)
      [] u = "u2" -> Email("a", TRUE, FALSE)
      [] u = "u3" -> Email("b", FALSE, FALSE)
      [] OTHER    -> NoEmail

\* currentUser.displayName || currentUser.email || 'Administrador'
InviterName(u) == UserEmail(u).name

\* addresses typed into the invite form
EmailInputs == {Email("a", FALSE, FALSE), Email("a", TRUE, TRUE)}
\* roles offered by the invite form in the runs checked here
InviteRoles == {"member"}

toLowerCase(e) == [e EXCEPT !.upper = FALSE]
trim(e) == [e EXCEPT !.pad = FALSE]
Canonical(e) == trim(toLowerCase(e))

----------------------------------------------------------------------------
(* CryptoService *)

Tokens == 1..MaxTokens
\* tokens a caller may present: every generated token and a forged one (0)
TokenInputs == 0..MaxTokens

\* faulty variant: a digest of few values, under which distinct tokens collide
hashToken_mod5(t) == 1000 + ((7 * t + 3) % 5)

\* SHA-256 as a deterministic injective map into values that are not tokens
hashToken(t) == 1000 + ((7 * t + 3) % 1009)

\* faulty variant: every token verifies
verifyToken_any(t, hash) == TRUE

verifyToken(t, hash) == hashToken(t) = hash

INVITE_EXPIRY_HOURS == 72

\* The clock advances by one invitation lifetime, so that now = expiresAt
\* (not yet expired) and now > expiresAt both occur.
TickStep == INVITE_EXPIRY_HOURS

----------------------------------------------------------------------------
(* Documents *)

\* updateDoc / batch.update: the named fields are set, the others kept
Update(d, f) == [k \in (DOMAIN d) \cup (DOMAIN f) |-> IF k \in DOMAIN f THEN f[k] ELSE d[k]]

\* doc(...).set on a new id / batch.set
Put(coll, id, d) == [k \in (DOMAIN coll) \cup {id} |-> IF k = id THEN d ELSE coll[k]]

NoDoc == [exists |-> FALSE]

\* localStorage.getItem(PENDING_INVITE_KEY) === null
NoPending == [stored |-> FALSE]

getDoc(coll, id) == IF id \in DOMAIN coll THEN coll[id] ELSE NoDoc
Exists(d) == "exists" \notin DOMAIN d

Empty == <<>>

TeamIds == 1..MaxTeams
InviteIds == 1..MaxInvites

\* cryptoService.generateInviteId(): a fresh id
NewInviteId == Cardinality(DOMAIN invitations) + 1
NewTeamId == Cardinality(DOMAIN teams) + 1

----------------------------------------------------------------------------
(* TeamService queries *)

ActiveMembersByUid(t, u) ==
    {m \in DOMAIN members : members[m].teamId = t /\ members[m].uid = u /\ members[m].status = "active"}

ActiveMembersByEmail(t, e) ==
    {m \in DOMAIN members : members[m].teamId = t /\ members[m].email = e /\ members[m].status = "active"}

isTeamOwner(t, u) == Exists(getDoc(teams, t)) /\ teams[t].ownerUid = u

\* faulty variant: every active member may invite
canUserInvite_anyMember(t, u) ==
    \/ isTeamOwner(t, u)
    \/ ActiveMembersByUid(t, u) # {}

canUserInvite(t, u) ==
    \/ isTeamOwner(t, u)
    \/ \E m \in ActiveMembersByUid(t, u) : members[m].role \in {"admin", "owner"}

isUserMember(t, e) == ActiveMembersByEmail(t, Canonical(e)) # {}

isUserMemberByUid(t, u) == ActiveMembersByUid(t, u) # {}

\* InviteService.getExistingPendingInvite
PendingInvitesFor(t, e) ==
    {i \in DOMAIN invitations :
        /\ invitations[i].teamId = t
        /\ invitations[i].email = Canonical(e)
        /\ invitations[i].status = "pending"}

----------------------------------------------------------------------------
(* Calls in flight *)

\* `resume` marks the accept that processPendingInvite makes in the visitor's
\* browser; `value` is the document a finished call resolves to
Idle == [op |-> "idle", pc |-> "idle", caller |-> NoUser, inviteId |-> 0, token |-> 0,
         teamId |-> 0, memberId |-> 0, email |-> NoEmail, role |-> "none", snap |-> NoDoc,
         resume |-> FALSE, result |-> "none", value |-> NoDoc]

Begin(o, p, u) == [Idle EXCEPT !.op = o, !.pc = p, !.caller = u]

\* the message of each return statement of acceptInvitation, and of the two
\* errors raised inside its try block
AcceptMessage(r) ==
    CASE r = "not_found"       -> "Convite nao encontrado"
      [] r = "processed"       -> "Este convite ja foi processado ou cancelado"
      [] r = "expired"         -> "Este convite expirou"
      [] r = "invalid_token"   -> "Token de convite invalido"
      [] r = "email_mismatch"  -> "Este convite foi enviado para ..., mas voce esta logado como ..."
      [] r = "already_member"  -> "Voce ja e membro desta equipe"
      [] r = "success"         -> "Convite aceito com sucesso!"
      [] r = "unauthenticated" -> "Usuario nao autenticado ou sem email"
      [] OTHER                 -> "batch.commit error"

\* the outcomes that are exceptions raised inside the try block: the throw
\* on a missing currentUser and a rejected batch.commit()
AcceptThrows(r) == r \in {"unauthenticated", "error"}

\* faulty variant: no catch block, an exception rejects the promise
acceptSettled_noCatch(r) ==
    IF AcceptThrows(r)
    THEN [state |-> "rejected", value |-> [message |-> AcceptMessage(r)]]
    ELSE [state |-> "fulfilled", value |-> [success |-> (r = "success"), message |-> AcceptMessage(r)]]

\* what the promise of acceptInvitation settles to: the object of the return
\* statement reached, or the one the catch block builds from the exception
acceptSettled(r) ==
    IF AcceptThrows(r)
    THEN [state |-> "fulfilled", value |-> [success |-> FALSE, message |-> AcceptMessage(r)]]
    ELSE [state |-> "fulfilled", value |-> [success |-> (r = "success"), message |-> AcceptMessage(r)]]

\* what the promise of createTeam settles to: the Team created, or the null
\* that its catch block returns for every exception
createTeamSettled(c, r) ==
    [state |-> "fulfilled",
     value |-> IF r = "ok" THEN [ownerUid |-> c.caller, name |-> "team"] ELSE NoDoc]

\* the call returns (or throws) r; its locals are dropped
Done(c, r) == [Idle EXCEPT !.op = c.op, !.pc = "done", !.caller = c.caller,
                          !.inviteId = c.inviteId, !.token = c.token,
                          !.teamId = c.teamId, !.memberId = c.memberId,
                          !.resume = c.resume, !.result = r,
                          !.value = IF c.op = "accept" THEN acceptSettled(r)
                                   ELSE IF c.op = "createTeam" THEN createTeamSettled(c, r)
                                   ELSE NoDoc]

Set(s, c) == calls' = [calls EXCEPT ![s] = c]

\* A finished call hands its result to its caller before anything else runs.
NoneDone == \A s \in Slots : calls[s].pc # "done"

\* Slots are interchangeable: a new call takes the lowest idle one.
Free(s) == calls[s].pc = "idle" /\ NoneDone /\ \A q \in Slots : q < s => calls[q].pc # "idle"

At(s, o, p) == calls[s].op = o /\ calls[s].pc = p /\ NoneDone

Init ==
    /\ teams = Empty
    /\ members = Empty
    /\ userTeams = Empty
    /\ invitations = Empty
    /\ links = Empty
    /\ now = 0
    /\ nextAuto = 1
    /\ nextToken = 1
    /\ calls = [s \in Slots |-> Idle]
    /\ pending = NoPending
    /\ session = NoUser
    /\ hook = [processing |-> FALSE, subscribed |-> FALSE, notify |-> NoUser, submitted |-> 0]

\* The caller has taken the result of a finished call.  processInviteIfPending
\* takes the result of processPendingInvite and runs its finally block.
Return(s) ==
    /\ calls[s].pc = "done"
    /\ Set(s, Idle)
    /\ hook' = IF calls[s].resume THEN [hook EXCEPT !.processing = FALSE] ELSE hook
    /\ UNCHANGED <<store, links, now, nextAuto, nextToken, pending, session>>

Tick ==
    /\ NoneDone
    /\ now + TickStep <= MaxTicks * TickStep
    /\ now' = now + TickStep
    /\ UNCHANGED <<store, links, nextAuto, nextToken, calls, pending, session, hook>>

----------------------------------------------------------------------------
(* TeamService.createTeam *)

OwnerMember(t, u) ==
    [teamId |-> t, uid |-> u, email |-> UserEmail(u), role |-> "owner", status |-> "active"]

OwnerRef(t, u) ==
    [uid |-> u, teamId |-> t, role |-> "owner", status |-> "active"]

\* createTeam(teamData) where teamData.settings gives maxMembers: the spread
\* ...teamData.settings comes after the default and overrides it
createTeamWith(s, u, maxMembers) ==
    /\ Free(s)
    /\ IF u = NoUser
       THEN /\ Set(s, Done(Begin("createTeam", "start", u), "unauthenticated"))
            /\ UNCHANGED <<store, nextAuto>>
       ELSE /\ NewTeamId \in TeamIds
            /\ nextAuto <= MaxMemberDocs
            /\ teams' = Put(teams, NewTeamId, [ownerUid |-> u, name |-> "team", maxMembers |-> maxMembers])
            /\ members' = Put(members, nextAuto, OwnerMember(NewTeamId, u))
            /\ userTeams' = Put(userTeams, nextAuto, OwnerRef(NewTeamId, u))
            /\ nextAuto' = nextAuto + 1
            /\ UNCHANGED invitations
            /\ Set(s, Done(Begin("createTeam", "start", u), "ok"))
    /\ UNCHANGED <<links, now, nextToken, pending, session, hook>>

\* createTeam(teamData) where teamData.settings leaves maxMembers to the default
createTeam(s, u) == createTeamWith(s, u, 50)

----------------------------------------------------------------------------
(* InviteService.createInvitation *)

\* The call and its first read, teamService.canUserInvite(teamId, uid):
\* nothing is read before it, so the call starts when that read is served.
createInvitation(s, u, t, e, r) ==
    /\ Free(s)
    /\ LET c == [Begin("create", "pendingQuery", u) EXCEPT !.teamId = t, !.email = e, !.role = r]
       IN  IF u = NoUser THEN Set(s, Done(c, "unauthenticated"))
           ELSE IF ~canUserInvite(t, u) THEN Set(s, Done(c, "permission_denied"))
           ELSE Set(s, c)
    /\ UNCHANGED <<store, links, now, nextAuto, nextToken, pending, session, hook>>

\* await this.getExistingPendingInvite(teamId, email)
createPendingQuery(s) ==
    /\ At(s, "create", "pendingQuery")
    /\ IF PendingInvitesFor(calls[s].teamId, calls[s].email) # {}
       THEN Set(s, Done(calls[s], "conflict_pending"))
       ELSE Set(s, [calls[s] EXCEPT !.pc = "memberQuery"])
    /\ UNCHANGED <<store, links, now, nextAuto, nextToken, pending, session, hook>>

\* await teamService.isUserMember(teamId, email)
createMemberQuery(s) ==
    /\ At(s, "create", "memberQuery")
    /\ IF isUserMember(calls[s].teamId, calls[s].email)
       THEN Set(s, Done(calls[s], "conflict_member"))
       ELSE Set(s, [calls[s] EXCEPT !.pc = "write"])
    /\ UNCHANGED <<store, links, now, nextAuto, nextToken, pending, session, hook>>

\* faulty variant: the raw token is persisted in place of its hash
NewInvitation_rawToken(c, team, hash) ==
    [teamId    |-> c.teamId,
     email     |-> trim(toLowerCase(c.email)),
     role      |-> c.role,
     tokenHash |-> nextToken,
     status    |-> "pending",
     expiresAt |-> now + INVITE_EXPIRY_HOURS,
     createdAt |-> now,
     createdBy |-> c.caller,
     metadata  |-> [teamName |-> team.name, inviterName |-> InviterName(c.caller)]]

NewInvitation(c, team, hash) ==
    [teamId    |-> c.teamId,
     email     |-> trim(toLowerCase(c.email)),
     role      |-> c.role,
     tokenHash |-> hash,
     status    |-> "pending",
     expiresAt |-> now + INVITE_EXPIRY_HOURS,
     createdAt |-> now,
     createdBy |-> c.caller,
     metadata  |-> [teamName |-> team.name, inviterName |-> InviterName(c.caller)]]

\* getTeamById, generateSecureToken, hashToken, generateInviteId and the
\* write of invitations/{inviteId}; teams are never deleted, so the team
\* read after a passed canUserInvite finds the team.
createWrite(s) ==
    /\ At(s, "create", "write")
    /\ LET c == calls[s]
           team == getDoc(teams, c.teamId)
       IN  IF ~Exists(team)
           THEN /\ Set(s, Done(c, "team_not_found"))
                /\ UNCHANGED <<invitations, links, nextToken>>
           ELSE /\ NewInviteId \in InviteIds
                /\ nextToken \in Tokens
                /\ invitations' = Put(invitations, NewInviteId, NewInvitation(c, team, hashToken(nextToken)))
                /\ links' = Put(links, NewInviteId, <<[token |-> nextToken, via |-> "create"]>>)
                /\ nextToken' = nextToken + 1
                /\ Set(s, [Done(c, "ok") EXCEPT !.inviteId = NewInviteId, !.token = nextToken])
    /\ UNCHANGED <<teams, members, userTeams, now, nextAuto, pending, session, hook>>

----------------------------------------------------------------------------
(* InviteService.acceptInvitation *)

\* faulty variant: the status of the invitation is not checked
AcceptCheck_noStatus(inv, tok, u) ==
    IF ~Exists(inv) THEN "not_found"
    ELSE IF now > inv.expiresAt THEN "expired"
    ELSE IF ~verifyToken(tok, inv.tokenHash) THEN "invalid_token"
    ELSE IF trim(toLowerCase(UserEmail(u))) # trim(toLowerCase(inv.email)) THEN "email_mismatch"
    ELSE "pass"

\* faulty variant: the caller's email is not compared with the invitation's
AcceptCheck_noEmail(inv, tok, u) ==
    IF ~Exists(inv) THEN "not_found"
    ELSE IF inv.status # "pending" THEN "processed"
    ELSE IF now > inv.expiresAt THEN "expired"
    ELSE IF ~verifyToken(tok, inv.tokenHash) THEN "invalid_token"
    ELSE "pass"

\* faulty variant: the expiry date is not checked
AcceptCheck_noExpiry(inv, tok, u) ==
    IF ~Exists(inv) THEN "not_found"
    ELSE IF inv.status # "pending" THEN "processed"
    ELSE IF ~verifyToken(tok, inv.tokenHash) THEN "invalid_token"
    ELSE IF trim(toLowerCase(UserEmail(u))) # trim(toLowerCase(inv.email)) THEN "email_mismatch"
    ELSE "pass"

\* faulty variant: the two addresses are compared as they are written
AcceptCheck_rawEmail(inv, tok, u) ==
    IF ~Exists(inv) THEN "not_found"
    ELSE IF inv.status # "pending" THEN "processed"
    ELSE IF now > inv.expiresAt THEN "expired"
    ELSE IF ~verifyToken(tok, inv.tokenHash) THEN "invalid_token"
    ELSE IF UserEmail(u) # inv.email THEN "email_mismatch"
    ELSE "pass"

\* faulty variant: only the invitation's address is lower-cased and trimmed
AcceptCheck_inviteOnly(inv, tok, u) ==
    IF ~Exists(inv) THEN "not_found"
    ELSE IF inv.status # "pending" THEN "processed"
    ELSE IF now > inv.expiresAt THEN "expired"
    ELSE IF ~verifyToken(tok, inv.tokenHash) THEN "invalid_token"
    ELSE IF UserEmail(u) # trim(toLowerCase(inv.email)) THEN "email_mismatch"
    ELSE "pass"

\* the checks made on the invitation document that getDoc returned
AcceptCheck(inv, tok, u) ==
    IF ~Exists(inv) THEN "not_found"
    ELSE IF inv.status # "pending" THEN "processed"
    ELSE IF now > inv.expiresAt THEN "expired"
    ELSE IF ~verifyToken(tok, inv.tokenHash) THEN "invalid_token"
    ELSE IF trim(toLowerCase(UserEmail(u))) # trim(toLowerCase(inv.email)) THEN "email_mismatch"
    ELSE "pass"

\* await getDoc(doc(db, 'invitations', inviteId)) and the checks up to the
\* next await, for the call c running in slot s
AcceptRead(s, c) ==
    LET inv == getDoc(invitations, c.inviteId)
        chk == AcceptCheck(inv, c.token, c.caller)
    IN  CASE chk = "pass"    -> Set(s, [c EXCEPT !.pc = "isMember", !.snap = inv])
          [] chk = "expired" -> Set(s, [c EXCEPT !.pc = "expire"])
          [] OTHER           -> Set(s, Done(c, chk))

\* The call and its getDoc; nothing is read before the getDoc.
acceptInvitation(s, u, i, tok) ==
    /\ Free(s)
    /\ LET c == [Begin("accept", "getDoc", u) EXCEPT !.inviteId = i, !.token = tok]
       IN  IF u = NoUser THEN Set(s, Done(c, "unauthenticated"))
           ELSE AcceptRead(s, c)
    /\ UNCHANGED <<store, links, now, nextAuto, nextToken, pending, session, hook>>

\* await updateDoc(..., {status: 'expired'})
acceptExpire(s) ==
    /\ At(s, "accept", "expire")
    /\ invitations' = [invitations EXCEPT ![calls[s].inviteId] = Update(@, [status |-> "expired"])]
    /\ Set(s, Done(calls[s], "expired"))
    /\ UNCHANGED <<teams, members, userTeams, links, now, nextAuto, nextToken, pending, session, hook>>

\* faulty variant: the membership of the caller is not looked up
acceptIsMember_skip(s) ==
    /\ At(s, "accept", "isMember")
    /\ Set(s, [calls[s] EXCEPT !.pc = "commit"])
    /\ UNCHANGED <<store, links, now, nextAuto, nextToken, pending, session, hook>>

\* faulty variant: a membership of any team turns the caller away
acceptIsMember_anyTeam(s) ==
    /\ At(s, "accept", "isMember")
    /\ IF \E m \in DOMAIN members : members[m].uid = calls[s].caller /\ members[m].status = "active"
       THEN Set(s, Done(calls[s], "already_member"))
       ELSE Set(s, [calls[s] EXCEPT !.pc = "commit"])
    /\ UNCHANGED <<store, links, now, nextAuto, nextToken, pending, session, hook>>

\* await teamService.isUserMemberByUid(invitation.teamId, currentUser.uid)
acceptIsMember(s) ==
    /\ At(s, "accept", "isMember")
    /\ IF isUserMemberByUid(calls[s].snap.teamId, calls[s].caller)
       THEN Set(s, Done(calls[s], "already_member"))
       ELSE Set(s, [calls[s] EXCEPT !.pc = "commit"])
    /\ UNCHANGED <<store, links, now, nextAuto, nextToken, pending, session, hook>>

InvitedMember(inv, u) ==
    [teamId |-> inv.teamId, uid |-> u, email |-> trim(toLowerCase(UserEmail(u))),
     role |-> inv.role, status |-> "active", invitedBy |-> inv.createdBy]

InvitedRef(inv, u) ==
    [uid |-> u, teamId |-> inv.teamId, role |-> inv.role, status |-> "active"]

\* serverTimestamp(): the sentinel the client writes; no code reads the value
serverTimestamp == "serverTimestamp"

AcceptedFields(u) == [status |-> "accepted", acceptedAt |-> serverTimestamp, acceptedBy |-> u]

\* faulty variant: the UserTeamRef is left out of the batch
acceptCommit_noRef(s) ==
    /\ At(s, "accept", "commit")
    /\ nextAuto <= MaxMemberDocs
    /\ LET c == calls[s]
       IN  /\ members' = Put(members, nextAuto, InvitedMember(c.snap, c.caller))
           /\ invitations' = [invitations EXCEPT ![c.inviteId] = Update(@, AcceptedFields(c.caller))]
           /\ nextAuto' = nextAuto + 1
           /\ pending' = IF c.resume THEN NoPending ELSE pending
           /\ Set(s, Done(c, "success"))
    /\ UNCHANGED <<teams, userTeams, links, now, nextToken, session, hook>>

\* await batch.commit(): the three writes, built from the invitation as read,
\* then this.clearPendingInvite() in the browser the call runs in
acceptCommit(s) ==
    /\ At(s, "accept", "commit")
    /\ nextAuto <= MaxMemberDocs
    /\ LET c == calls[s]
       IN  /\ members' = Put(members, nextAuto, InvitedMember(c.snap, c.caller))
           /\ userTeams' = Put(userTeams, nextAuto, InvitedRef(c.snap, c.caller))
           /\ invitations' = [invitations EXCEPT ![c.inviteId] = Update(@, AcceptedFields(c.caller))]
           /\ nextAuto' = nextAuto + 1
           /\ pending' = IF c.resume THEN NoPending ELSE pending
           /\ Set(s, Done(c, "success"))
    /\ UNCHANGED <<teams, links, now, nextToken, session, hook>>

\* batch.commit() rejects: nothing is written, the catch block returns failure
acceptCommitFail(s) ==
    /\ At(s, "accept", "commit")
    /\ Set(s, Done(calls[s], "error"))
    /\ UNCHANGED <<store, links, now, nextAuto, nextToken, pending, session, hook>>

----------------------------------------------------------------------------
(* InviteService.cancelInvitation *)

\* faulty variant: whoever may invite may manage every invitation of the team
CanManage_anyInviter(inv, u) == inv.createdBy = u \/ canUserInvite(inv.teamId, u)

\* invitation.createdBy === currentUser.uid || await teamService.isTeamOwner(...)
CanManage(inv, u) == inv.createdBy = u \/ isTeamOwner(inv.teamId, u)

\* The call, getDoc and the permission check (the owner of a team never changes)
cancelInvitation(s, u, i) ==
    /\ Free(s)
    /\ LET c == [Begin("cancel", "write", u) EXCEPT !.inviteId = i]
           inv == getDoc(invitations, i)
       IN  IF u = NoUser THEN Set(s, Done(c, "unauthenticated"))
           ELSE IF ~Exists(inv) THEN Set(s, Done(c, "not_found"))
           ELSE IF ~CanManage(inv, u) THEN Set(s, Done(c, "permission_denied"))
           ELSE Set(s, c)
    /\ UNCHANGED <<store, links, now, nextAuto, nextToken, pending, session, hook>>

\* faulty variant: the cancelled invitation also loses its token hash
cancelWrite_clearHash(s) ==
    /\ At(s, "cancel", "write")
    /\ invitations' = [invitations EXCEPT ![calls[s].inviteId] =
            Update(@, [status |-> "cancelled", tokenHash |-> 0])]
    /\ Set(s, Done(calls[s], "ok"))
    /\ UNCHANGED <<teams, members, userTeams, links, now, nextAuto, nextToken, pending, session, hook>>

\* await updateDoc(inviteRef, {status: 'cancelled'})
cancelWrite(s) ==
    /\ At(s, "cancel", "write")
    /\ invitations' = [invitations EXCEPT ![calls[s].inviteId] = Update(@, [status |-> "cancelled"])]
    /\ Set(s, Done(calls[s], "ok"))
    /\ UNCHANGED <<teams, members, userTeams, links, now, nextAuto, nextToken, pending, session, hook>>

----------------------------------------------------------------------------
(* InviteService.regenerateInviteLink *)

\* The call, getDoc, the permission and status checks, the new token and the
\* new expiry date, all computed before the updateDoc is sent.
regenerateInviteLink(s, u, i) ==
    /\ Free(s)
    /\ LET c == [Begin("regenerate", "write", u) EXCEPT !.inviteId = i]
           inv == getDoc(invitations, i)
       IN  IF u = NoUser
           THEN Set(s, Done(c, "unauthenticated")) /\ UNCHANGED nextToken
           ELSE IF ~Exists(inv)
           THEN Set(s, Done(c, "not_found")) /\ UNCHANGED nextToken
           ELSE IF ~CanManage(inv, u)
           THEN Set(s, Done(c, "permission_denied")) /\ UNCHANGED nextToken
           ELSE IF inv.status # "pending"
           THEN Set(s, Done(c, "not_pending")) /\ UNCHANGED nextToken
           ELSE /\ nextToken \in Tokens
                /\ nextToken' = nextToken + 1
                /\ Set(s, [c EXCEPT !.token = nextToken,
                                    !.snap = [expiresAt |-> now + INVITE_EXPIRY_HOURS]])
    /\ UNCHANGED <<store, links, now, nextAuto, pending, session, hook>>

Issue(i, tok, how) ==
    [links EXCEPT ![i] = Append(@, [token |-> tok, via |-> how])]

\* faulty variant: the new hash is not stored, only the expiry date is extended
regenerateWrite_keepHash(s) ==
    /\ At(s, "regenerate", "write")
    /\ LET c == calls[s]
       IN  /\ invitations' = [invitations EXCEPT ![c.inviteId] =
                    Update(@, [expiresAt |-> c.snap.expiresAt])]
           /\ links' = Issue(c.inviteId, c.token, "regenerate")
           /\ Set(s, Done(c, "ok"))
    /\ UNCHANGED <<teams, members, userTeams, now, nextAuto, nextToken, pending, session, hook>>

\* await updateDoc(..., {tokenHash: newTokenHash, expiresAt: newExpiresAt})
regenerateWrite(s) ==
    /\ At(s, "regenerate", "write")
    /\ LET c == calls[s]
       IN  /\ invitations' = [invitations EXCEPT ![c.inviteId] =
                    Update(@, [tokenHash |-> hashToken(c.token), expiresAt |-> c.snap.expiresAt])]
           /\ links' = Issue(c.inviteId, c.token, "regenerate")
           /\ Set(s, Done(c, "ok"))
    /\ UNCHANGED <<teams, members, userTeams, now, nextAuto, nextToken, pending, session, hook>>

----------------------------------------------------------------------------
(* Cloud Function validateInviteToken *)

ValidateCheck(inv, tok) ==
    IF ~Exists(inv) THEN "not_found"
    ELSE IF inv.status # "pending" THEN "processed"
    ELSE IF now > inv.expiresAt THEN "expired"
    ELSE IF hashToken(tok) # inv.tokenHash THEN "invalid_token"
    ELSE "valid"

\* callable without authentication
validateInviteToken(s, i, tok) ==
    /\ Free(s)
    /\ LET c == [Begin("validate", "expire", NoUser) EXCEPT !.inviteId = i, !.token = tok]
           chk == ValidateCheck(getDoc(invitations, i), tok)
       IN  IF chk = "expired" THEN Set(s, c) ELSE Set(s, Done(c, chk))
    /\ UNCHANGED <<store, links, now, nextAuto, nextToken, pending, session, hook>>

\* await inviteDoc.ref.update({status: 'expired'})
validateExpire(s) ==
    /\ At(s, "validate", "expire")
    /\ invitations' = [invitations EXCEPT ![calls[s].inviteId] = Update(@, [status |-> "expired"])]
    /\ Set(s, Done(calls[s], "expired"))
    /\ UNCHANGED <<teams, members, userTeams, links, now, nextAuto, nextToken, pending, session, hook>>

----------------------------------------------------------------------------
(* Cloud Function sendInviteEmail *)

\* The call, both reads, the permission check, the SendGrid configuration
\* check and the new token.  `configured` is functions.config().sendgrid.api_key.
sendInviteEmail(s, u, i, configured) ==
    /\ Free(s)
    /\ LET c == [Begin("sendEmail", "write", u) EXCEPT !.inviteId = i]
           inv == getDoc(invitations, i)
       IN  IF u = NoUser
           THEN Set(s, Done(c, "unauthenticated")) /\ UNCHANGED nextToken
           ELSE IF ~Exists(inv)
           THEN Set(s, Done(c, "not_found")) /\ UNCHANGED nextToken
           ELSE IF ~(inv.createdBy = u \/ teams[inv.teamId].ownerUid = u)
           THEN Set(s, Done(c, "permission_denied")) /\ UNCHANGED nextToken
           ELSE IF ~configured
           THEN Set(s, Done(c, "failed_precondition")) /\ UNCHANGED nextToken
           ELSE /\ nextToken \in Tokens
                /\ nextToken' = nextToken + 1
                /\ Set(s, [c EXCEPT !.token = nextToken])
    /\ UNCHANGED <<store, links, now, nextAuto, pending, session, hook>>

\* await inviteDoc.ref.update({tokenHash: newTokenHash}) and sgMail.send:
\* the link travels in the email, which may or may not be delivered
sendInviteEmailWrite(s, sent) ==
    /\ At(s, "sendEmail", "write")
    /\ LET c == calls[s]
       IN  /\ invitations' = [invitations EXCEPT ![c.inviteId] =
                    Update(@, [tokenHash |-> hashToken(c.token)])]
           /\ links' = Issue(c.inviteId, c.token, "email")
           /\ Set(s, Done(c, IF sent THEN "ok" ELSE "internal"))
    /\ UNCHANGED <<teams, members, userTeams, now, nextAuto, nextToken, pending, session, hook>>

----------------------------------------------------------------------------
(* TeamService.removeMember *)

MemberIds == 1..MaxMemberDocs
\* roles offered by the member list
MemberRoles == {"admin", "member"}

\* The ids a caller can name: document ids are generated at random, so a call
\* names a member document that was created before the call, deleted or not.
IssuedMemberIds == {m \in MemberIds : m < nextAuto}

\* getDoc(doc(db, 'teams', teamId, 'members', memberId))
getMember(t, m) ==
    IF m \in DOMAIN members /\ members[m].teamId = t THEN members[m] ELSE NoDoc

\* batch.delete of the documents ids, present or not
Delete(coll, ids) == [k \in (DOMAIN coll) \ ids |-> coll[k]]

\* faulty variant: the permission of the caller is not checked
removeMember_anyCaller(s, u, t, m) ==
    /\ Free(s)
    /\ LET c == [Begin("remove", "getMember", u) EXCEPT !.teamId = t, !.memberId = m]
       IN  IF u = NoUser THEN Set(s, Done(c, "unauthenticated"))
           ELSE Set(s, c)
    /\ UNCHANGED <<store, links, now, nextAuto, nextToken, pending, session, hook>>

\* The call and await this.canUserInvite(teamId, currentUser.uid)
removeMember(s, u, t, m) ==
    /\ Free(s)
    /\ LET c == [Begin("remove", "getMember", u) EXCEPT !.teamId = t, !.memberId = m]
       IN  IF u = NoUser THEN Set(s, Done(c, "unauthenticated"))
           ELSE IF ~canUserInvite(t, u) THEN Set(s, Done(c, "permission_denied"))
           ELSE Set(s, c)
    /\ UNCHANGED <<store, links, now, nextAuto, nextToken, pending, session, hook>>

\* faulty variant: the role of the member is not looked at
removeGetMember_noOwnerCheck(s) ==
    /\ At(s, "remove", "getMember")
    /\ LET c == calls[s]
           member == getMember(c.teamId, c.memberId)
       IN  IF ~Exists(member) THEN Set(s, Done(c, "not_found"))
           ELSE Set(s, [c EXCEPT !.pc = "queryRefs", !.snap = [uid |-> member.uid]])
    /\ UNCHANGED <<store, links, now, nextAuto, nextToken, pending, session, hook>>

\* await getDoc(member) and the owner check
removeGetMember(s) ==
    /\ At(s, "remove", "getMember")
    /\ LET c == calls[s]
           member == getMember(c.teamId, c.memberId)
       IN  IF ~Exists(member) THEN Set(s, Done(c, "not_found"))
           ELSE IF member.role = "owner" THEN Set(s, Done(c, "owner"))
           ELSE Set(s, [c EXCEPT !.pc = "queryRefs", !.snap = [uid |-> member.uid]])
    /\ UNCHANGED <<store, links, now, nextAuto, nextToken, pending, session, hook>>

\* await getDocs(query(collection(db, 'users', member.uid, 'teams'), where('teamId', '==', teamId)))
removeQueryRefs(s) ==
    /\ At(s, "remove", "queryRefs")
    /\ LET c == calls[s]
       IN  Set(s, [c EXCEPT !.pc = "commit",
                            !.snap = [uid |-> c.snap.uid,
                                      refs |-> {r \in DOMAIN userTeams :
                                                  /\ userTeams[r].uid = c.snap.uid
                                                  /\ userTeams[r].teamId = c.teamId}]])
    /\ UNCHANGED <<store, links, now, nextAuto, nextToken, pending, session, hook>>

\* faulty variant: only the Membership is deleted
removeCommit_keepRefs(s) ==
    /\ At(s, "remove", "commit")
    /\ members' = Delete(members, {calls[s].memberId})
    /\ Set(s, Done(calls[s], "ok"))
    /\ UNCHANGED <<teams, userTeams, invitations, links, now, nextAuto, nextToken, pending, session, hook>>

\* await batch.commit(): the Membership and the UserTeamRefs found are deleted
removeCommit(s) ==
    /\ At(s, "remove", "commit")
    /\ members' = Delete(members, {calls[s].memberId})
    /\ userTeams' = Delete(userTeams, calls[s].snap.refs)
    /\ Set(s, Done(calls[s], "ok"))
    /\ UNCHANGED <<teams, invitations, links, now, nextAuto, nextToken, pending, session, hook>>

----------------------------------------------------------------------------
(* TeamService.updateMemberRole *)

\* The call and await this.isTeamOwner(teamId, currentUser.uid)
updateMemberRole(s, u, t, m, r) ==
    /\ Free(s)
    /\ LET c == [Begin("updateRole", "getMember", u) EXCEPT !.teamId = t, !.memberId = m, !.role = r]
       IN  IF u = NoUser THEN Set(s, Done(c, "unauthenticated"))
           ELSE IF ~isTeamOwner(t, u) THEN Set(s, Done(c, "permission_denied"))
           ELSE Set(s, c)
    /\ UNCHANGED <<store, links, now, nextAuto, nextToken, pending, session, hook>>

\* await getDoc(memberRef): a missing member leaves only its own update in the batch
updateGetMember(s) ==
    /\ At(s, "updateRole", "getMember")
    /\ LET c == calls[s]
           member == getMember(c.teamId, c.memberId)
       IN  IF Exists(member)
           THEN Set(s, [c EXCEPT !.pc = "queryRefs", !.snap = [uid |-> member.uid]])
           ELSE Set(s, [c EXCEPT !.pc = "commit", !.snap = [uid |-> NoUser, refs |-> {}]])
    /\ UNCHANGED <<store, links, now, nextAuto, nextToken, pending, session, hook>>

\* await getDocs(query(collection(db, 'users', member.uid, 'teams'), where('teamId', '==', teamId)))
updateQueryRefs(s) ==
    /\ At(s, "updateRole", "queryRefs")
    /\ LET c == calls[s]
       IN  Set(s, [c EXCEPT !.pc = "commit",
                            !.snap = [uid |-> c.snap.uid,
                                      refs |-> {r \in DOMAIN userTeams :
                                                  /\ userTeams[r].uid = c.snap.uid
                                                  /\ userTeams[r].teamId = c.teamId}]])
    /\ UNCHANGED <<store, links, now, nextAuto, nextToken, pending, session, hook>>

RoleFields(r) == [role |-> r, updatedAt |-> serverTimestamp]

\* faulty variant: only the Membership gets the new role
updateCommit_memberOnly(s) ==
    /\ At(s, "updateRole", "commit")
    /\ LET c == calls[s]
       IN  IF getMember(c.teamId, c.memberId) = NoDoc \/ ~(c.snap.refs \subseteq DOMAIN userTeams)
           THEN /\ Set(s, Done(c, "error"))
                /\ UNCHANGED <<members, userTeams>>
           ELSE /\ members' = [members EXCEPT ![c.memberId] = Update(@, RoleFields(c.role))]
                /\ UNCHANGED userTeams
                /\ Set(s, Done(c, "ok"))
    /\ UNCHANGED <<teams, invitations, links, now, nextAuto, nextToken, pending, session, hook>>

\* await batch.commit(): batch.update of a document that does not exist
\* rejects the whole batch; otherwise the Membership and the UserTeamRefs found
\* get the new role
updateCommit(s) ==
    /\ At(s, "updateRole", "commit")
    /\ LET c == calls[s]
       IN  IF getMember(c.teamId, c.memberId) = NoDoc \/ ~(c.snap.refs \subseteq DOMAIN userTeams)
           THEN /\ Set(s, Done(c, "error"))
                /\ UNCHANGED <<members, userTeams>>
           ELSE /\ members' = [members EXCEPT ![c.memberId] = Update(@, RoleFields(c.role))]
                /\ userTeams' = [r \in DOMAIN userTeams |->
                                    IF r \in c.snap.refs THEN Update(userTeams[r], RoleFields(c.role))
                                    ELSE userTeams[r]]
                /\ Set(s, Done(c, "ok"))
    /\ UNCHANGED <<teams, invitations, links, now, nextAuto, nextToken, pending, session, hook>>

----------------------------------------------------------------------------

\* one step of a call running in one of the slots S, or of the clock
Step(S) ==
    \/ Tick
    \/ \E s \in S : Return(s)
    \/ \E s \in S, u \in Founders \cup {NoUser} : createTeam(s, u)
    \/ \E s \in S, u \in Users \cup {NoUser}, t \in TeamIds, e \in EmailInputs, r \in InviteRoles :
            createInvitation(s, u, t, e, r)
    \/ \E s \in S : createPendingQuery(s)
    \/ \E s \in S : createMemberQuery(s)
    \/ \E s \in S : createWrite(s)
    \/ \E s \in S, u \in Users \cup {NoUser}, i \in InviteIds, tok \in TokenInputs :
            acceptInvitation(s, u, i, tok)
    \/ \E s \in S : acceptExpire(s)
    \/ \E s \in S : acceptIsMember(s)
    \/ \E s \in S : acceptCommit(s)
    \/ \E s \in S : acceptCommitFail(s)
    \/ \E s \in S, u \in Users \cup {NoUser}, i \in InviteIds : cancelInvitation(s, u, i)
    \/ \E s \in S : cancelWrite(s)
    \/ \E s \in S, u \in Users \cup {NoUser}, i \in InviteIds : regenerateInviteLink(s, u, i)
    \/ \E s \in S : regenerateWrite(s)
    \/ \E s \in S, i \in InviteIds, tok \in TokenInputs : validateInviteToken(s, i, tok)
    \/ \E s \in S : validateExpire(s)
    \/ \E s \in S, u \in Users \cup {NoUser}, i \in InviteIds, k \in BOOLEAN :
            sendInviteEmail(s, u, i, k)
    \/ \E s \in S, sent \in BOOLEAN : sendInviteEmailWrite(s, sent)

Next == Step(Slots)

Spec == Init /\ [][Next]_vars

\* Calls that run one after another: every call runs in the same slot, so a
\* call starts only when the one before it has returned.
SeqNext == Step({1})

SpecSeq == Init /\ [][SeqNext]_vars

\* A call in flight goes on: its awaited read or write settles and its result
\* is taken.
SeqFair ==
    /\ WF_vars(Return(1))
    /\ WF_vars(createPendingQuery(1))
    /\ WF_vars(createMemberQuery(1))
    /\ WF_vars(createWrite(1))
    /\ WF_vars(acceptExpire(1))
    /\ WF_vars(acceptIsMember(1))
    /\ WF_vars(acceptCommit(1) \/ acceptCommitFail(1))
    /\ WF_vars(cancelWrite(1))
    /\ WF_vars(regenerateWrite(1))
    /\ WF_vars(validateExpire(1))
    /\ WF_vars(\E sent \in BOOLEAN : sendInviteEmailWrite(1, sent))

SpecSeqFair == Init /\ [][SeqNext]_vars /\ SeqFair

----------------------------------------------------------------------------
(* PendingInviteCache and the resume coordinator (useInviteProcessor) *)

\* new Date().toISOString() and new Date(string): the instant as a string and back
toISOString(d) == [iso |-> d]
DateOf(str) == str.iso

\* JSON.stringify of a PendingInvite: its properties in the order they were
\* written, each as a name and a value
JSONstringify(o) ==
    <<<<"inviteId", o.inviteId>>, <<"token", o.token>>, <<"timestamp", o.timestamp>>>>

\* JSON.parse: the object with the properties the string lists
JSONparse(str) ==
    [k \in {str[n][1] : n \in DOMAIN str} |->
        LET n == CHOOSE n \in DOMAIN str : str[n][1] = k IN str[n][2]]

\* localStorage.setItem(PENDING_INVITE_KEY, str): the item stored under the key
setItem(str) == [stored |-> TRUE, item |-> str]

\* faulty variant: an entry already cached is kept
savePendingInvite_keepFirst(s, i, tok) ==
    /\ Free(s)
    /\ session = NoUser
    /\ LET pendingInvite == [inviteId |-> i, token |-> tok, timestamp |-> toISOString(now)]
       IN  pending' = IF pending = NoPending THEN setItem(JSONstringify(pendingInvite)) ELSE pending
    /\ hook' = [hook EXCEPT !.submitted = 0]
    /\ Set(s, Done([Begin("handleAccept", "save", NoUser) EXCEPT !.inviteId = i, !.token = tok], "login"))
    /\ UNCHANGED <<store, links, now, nextAuto, nextToken, session>>

\* InviteAcceptPage.handleAcceptInvite of a visitor who is not signed in:
\* inviteService.savePendingInvite(inviteId, token), then
\* navigate('/login?redirect=accept-invite')
savePendingInvite(s, i, tok) ==
    /\ Free(s)
    /\ session = NoUser
    /\ LET pendingInvite == [inviteId |-> i, token |-> tok, timestamp |-> toISOString(now)]
       IN  pending' = setItem(JSONstringify(pendingInvite))
    /\ hook' = [hook EXCEPT !.submitted = 0]
    /\ Set(s, Done([Begin("handleAccept", "save", NoUser) EXCEPT !.inviteId = i, !.token = tok], "login"))
    /\ UNCHANGED <<store, links, now, nextAuto, nextToken, session>>

\* faulty variant: an entry counts as stale only after a day
Stale_day(p) == now - DateOf(p.timestamp) > 24

\* hoursDiff > 1 in getPendingInvite, for the parsed entry p
Stale(p) == now - DateOf(p.timestamp) > 1

\* getPendingInvite(): the entry parsed from the stored item, or null for no
\* item or a stale entry
getPendingInvite ==
    IF pending = NoPending THEN NoPending
    ELSE LET pendingInvite == JSONparse(pending.item)
         IN  IF Stale(pendingInvite) THEN NoPending ELSE pendingInvite

\* The authentication state becomes signed-in; the subscribed listener is
\* notified.  A run ends once the cached entry has been submitted MaxSubmits
\* times.
signIn(u) ==
    /\ session = NoUser
    /\ hook.notify = NoUser
    /\ hook.submitted < MaxSubmits
    /\ session' = u
    /\ hook' = [hook EXCEPT !.notify = u]
    /\ UNCHANGED <<store, links, now, nextAuto, nextToken, calls, pending>>

\* The authentication state becomes signed-out; the listener gets null and
\* does nothing.
signOut ==
    /\ session # NoUser
    /\ session' = NoUser
    /\ UNCHANGED <<store, links, now, nextAuto, nextToken, calls, pending, hook>>

\* useEffect(..., [processing]): after a render with a new value of processing
\* the listener is unsubscribed and subscribed again, closing over that value
resubscribe ==
    /\ hook.subscribed # hook.processing
    /\ hook' = [hook EXCEPT !.subscribed = hook.processing]
    /\ UNCHANGED <<store, links, now, nextAuto, nextToken, calls, pending, session>>

\* The callback of the subscribed listener: if (user && !processing)
\* processInviteIfPending(), which runs setProcessing(true),
\* processPendingInvite() with getPendingInvite() and acceptInvitation() up to
\* its first await; for no entry, processPendingInvite() returns null and the
\* finally block runs setProcessing(false).
authCallback(s) ==
    /\ hook.notify # NoUser
    /\ Free(s)
    /\ IF hook.subscribed
       THEN /\ hook' = [hook EXCEPT !.notify = NoUser]
            /\ UNCHANGED <<calls, pending>>
       ELSE IF getPendingInvite = NoPending
       THEN /\ hook' = [hook EXCEPT !.notify = NoUser, !.processing = FALSE]
            /\ pending' = NoPending
            /\ UNCHANGED calls
       ELSE LET pendingInvite == getPendingInvite
                c == [Begin("accept", "getDoc", session) EXCEPT
                            !.inviteId = pendingInvite.inviteId, !.token = pendingInvite.token,
                            !.resume = TRUE]
            IN  /\ hook' = [hook EXCEPT !.notify = NoUser, !.processing = TRUE, !.submitted = @ + 1]
                /\ Set(s, IF session = NoUser THEN Done(c, "unauthenticated") ELSE c)
                /\ UNCHANGED pending
    /\ UNCHANGED <<store, links, now, nextAuto, nextToken, session>>

\* await getDoc(doc(db, 'invitations', inviteId)) of the accept made by
\* processPendingInvite
acceptGetDoc(s) ==
    /\ At(s, "accept", "getDoc")
    /\ AcceptRead(s, calls[s])
    /\ UNCHANGED <<store, links, now, nextAuto, nextToken, pending, session, hook>>

\* no callback is pending and no call is in flight
Quiet == hook.notify = NoUser /\ \A s \in Slots : calls[s].pc = "idle"

\* Time is counted in hours, and neither the dispatch of a callback nor a call
\* to the store takes an hour: h hours pass while the browser is quiet.
Elapse(h) ==
    /\ Quiet
    /\ h = 1 => now % TickStep < MaxHours
    /\ now + h <= TickStep + MaxHours - 1
    /\ now' = now + h
    /\ UNCHANGED <<store, links, nextAuto, nextToken, calls, pending, session, hook>>

\* The store after the owner u1 has founded team 1 and invited a@x.com
\* (createTeam, then createInvitation, run from Init), with the browser of a
\* visitor who has not signed in.
ResumeInit ==
    /\ now = 0
    /\ nextAuto = 2
    /\ nextToken = 2
    /\ teams = <<[ownerUid |-> "u1", name |-> "team", maxMembers |-> 50]>>
    /\ members = <<OwnerMember(1, "u1")>>
    /\ userTeams = <<OwnerRef(1, "u1")>>
    /\ invitations = <<NewInvitation([teamId |-> 1, email |-> Email("a", FALSE, FALSE),
                                      role |-> "member", caller |-> "u1"],
                                     [name |-> "team"], hashToken(1))>>
    /\ links = <<<<[token |-> 1, via |-> "create"]>>>>
    /\ calls = [s \in Slots |-> Idle]
    /\ pending = NoPending
    /\ session = NoUser
    /\ hook = [processing |-> FALSE, subscribed |-> FALSE, notify |-> NoUser, submitted |-> 0]

\* the tokens found in the links the visitor opens: a forged one and the issued one
LinkTokens == {0, 1}
\* the accounts the visitor signs in with: the invited one and another one
Visitors == {"u2", "u3"}

\* A visitor opens invite links, signs in and out; the coordinator resumes
\* the cached invite.  The browser has one call in flight at a time.
ResumeNext ==
    \/ \E h \in {1, TickStep} : Elapse(h)
    \/ Return(1)
    \/ \E i \in InviteIds, tok \in LinkTokens : savePendingInvite(1, i, tok)
    \/ \E u \in Visitors : signIn(u)
    \/ signOut
    \/ resubscribe
    \/ authCallback(1)
    \/ acceptGetDoc(1)
    \/ acceptExpire(1)
    \/ acceptIsMember(1)
    \/ acceptCommit(1)

\* The browser runs every callback that is due and every store call is
\* answered.
ResumeFair ==
    /\ WF_vars(authCallback(1))
    /\ WF_vars(acceptGetDoc(1))
    /\ WF_vars(acceptExpire(1))
    /\ WF_vars(acceptIsMember(1))
    /\ WF_vars(acceptCommit(1))
    /\ WF_vars(Return(1))

SpecResume == ResumeInit /\ [][ResumeNext]_vars /\ ResumeFair

----------------------------------------------------------------------------
(* Two teams: accounts that belong to one team join the other. *)

\* The store after u1 has founded team 1 and u2 has founded team 2
\* (createTeam twice, run from Init).
MultiInit ==
    /\ now = 0
    /\ nextAuto = 3
    /\ nextToken = 1
    /\ teams = <<[ownerUid |-> "u1", name |-> "team", maxMembers |-> 50],
                 [ownerUid |-> "u2", name |-> "team", maxMembers |-> 50]>>
    /\ members = <<OwnerMember(1, "u1"), OwnerMember(2, "u2")>>
    /\ userTeams = <<OwnerRef(1, "u1"), OwnerRef(2, "u2")>>
    /\ invitations = Empty
    /\ links = Empty
    /\ calls = [s \in Slots |-> Idle]
    /\ pending = NoPending
    /\ session = NoUser
    /\ hook = [processing |-> FALSE, subscribed |-> FALSE, notify |-> NoUser, submitted |-> 0]

\* the addresses of the two owners, as typed into the invite form
MultiEmails == {Email("o", FALSE, FALSE), Email("a", FALSE, FALSE)}

\* Each owner invites to their team, invitations are accepted and members
\* removed, one call after another.
MultiNext ==
    \/ Return(1)
    \/ \E u \in Users, t \in DOMAIN teams, e \in MultiEmails : createInvitation(1, u, t, e, "member")
    \/ createPendingQuery(1)
    \/ createMemberQuery(1)
    \/ createWrite(1)
    \/ \E u \in Users, i \in InviteIds, tok \in TokenInputs : acceptInvitation(1, u, i, tok)
    \/ acceptIsMember(1)
    \/ acceptCommit(1)
    \/ \E u \in Users, t \in DOMAIN teams, m \in IssuedMemberIds : removeMember(1, u, t, m)
    \/ removeGetMember(1)
    \/ removeQueryRefs(1)
    \/ removeCommit(1)

SpecMulti == MultiInit /\ [][MultiNext]_vars

----------------------------------------------------------------------------
(* The team directory: teams are founded, people invited, members removed and
   their roles changed. *)

\* the accounts that found a team and the addresses invited in these runs
DirFounders == {"u1", "u2"}
DirEmails == {Email("a", FALSE, FALSE), Email("a", TRUE, TRUE), Email("b", FALSE, FALSE)}

DirStep(S) ==
    \/ \E s \in S : Return(s)
    \/ \E s \in S, u \in DirFounders : createTeam(s, u)
    \/ \E s \in S, u \in Users \cup {NoUser}, t \in TeamIds, e \in DirEmails, r \in MemberRoles :
            createInvitation(s, u, t, e, r)
    \/ \E s \in S : createPendingQuery(s)
    \/ \E s \in S : createMemberQuery(s)
    \/ \E s \in S : createWrite(s)
    \/ \E s \in S, u \in Users \cup {NoUser}, i \in InviteIds, tok \in TokenInputs :
            acceptInvitation(s, u, i, tok)
    \/ \E s \in S : acceptIsMember(s)
    \/ \E s \in S : acceptCommit(s)
    \/ \E s \in S : acceptCommitFail(s)
    \/ \E s \in S, u \in Users \cup {NoUser}, t \in TeamIds, m \in IssuedMemberIds : removeMember(s, u, t, m)
    \/ \E s \in S : removeGetMember(s)
    \/ \E s \in S : removeQueryRefs(s)
    \/ \E s \in S : removeCommit(s)
    \/ \E s \in S, u \in Users \cup {NoUser}, t \in TeamIds, m \in IssuedMemberIds, r \in MemberRoles :
            updateMemberRole(s, u, t, m, r)
    \/ \E s \in S : updateGetMember(s)
    \/ \E s \in S : updateQueryRefs(s)
    \/ \E s \in S : updateCommit(s)
    \/ \E s \in S, u \in Users \cup {NoUser}, i \in InviteIds : cancelInvitation(s, u, i)
    \/ \E s \in S : cancelWrite(s)
    \/ \E s \in S, u \in Users \cup {NoUser}, i \in InviteIds : regenerateInviteLink(s, u, i)
    \/ \E s \in S : regenerateWrite(s)

\* every call runs to completion before the next one starts; the clock stands
\* still, so no invitation expires in these runs
DirSeqNext == DirStep({1})

SpecDirSeq == Init /\ [][DirSeqNext]_vars

\* The same operations with calls that overlap: the owner u1 founds the team,
\* invites a@x.com, removes members and changes roles, while the invited
\* account u2 accepts with the tokens that were issued.
DirNext ==
    \/ \E s \in Slots : Return(s)
    \/ \E s \in Slots : createTeam(s, "u1")
    \/ \E s \in Slots, t \in TeamIds : createInvitation(s, "u1", t, Email("a", FALSE, FALSE), "member")
    \/ \E s \in Slots : createPendingQuery(s)
    \/ \E s \in Slots : createMemberQuery(s)
    \/ \E s \in Slots : createWrite(s)
    \/ \E s \in Slots, i \in InviteIds, tok \in Tokens : acceptInvitation(s, "u2", i, tok)
    \/ \E s \in Slots : acceptIsMember(s)
    \/ \E s \in Slots : acceptCommit(s)
    \/ \E s \in Slots, t \in TeamIds, m \in IssuedMemberIds : removeMember(s, "u1", t, m)
    \/ \E s \in Slots : removeGetMember(s)
    \/ \E s \in Slots : removeQueryRefs(s)
    \/ \E s \in Slots : removeCommit(s)
    \/ \E s \in Slots, t \in TeamIds, m \in IssuedMemberIds, r \in MemberRoles :
            updateMemberRole(s, "u1", t, m, r)
    \/ \E s \in Slots : updateGetMember(s)
    \/ \E s \in Slots : updateQueryRefs(s)
    \/ \E s \in Slots : updateCommit(s)

SpecDir == Init /\ [][DirNext]_vars

----------------------------------------------------------------------------
(* InviteService.getInviteMetadata and the invite page (InviteAcceptPage) *)

\* faulty variant: the stored document is returned as it is
getInviteMetadata_whole(coll, i) ==
    IF i \notin DOMAIN coll THEN NoDoc
    ELSE Update(coll[i], [id |-> i])

\* the Partial<Invitation> built from the document read from collection coll,
\* null (NoDoc) when there is none
getInviteMetadata(coll, i) ==
    IF i \notin DOMAIN coll THEN NoDoc
    ELSE LET data == coll[i]
         IN  [id        |-> i,
              teamId    |-> data.teamId,
              email     |-> data.email,
              role      |-> data.role,
              status    |-> data.status,
              expiresAt |-> data.expiresAt,
              createdAt |-> data.createdAt,
              metadata  |-> data.metadata]

\* what loadInviteMetadata makes of the metadata: the error it sets, or
\* "shown" when it calls setInvitation(metadata)
PageOutcome(metadata) ==
    IF ~Exists(metadata) THEN "not_found"
    ELSE IF metadata.status = "accepted" THEN "accepted"
    ELSE IF metadata.status = "cancelled" THEN "cancelled"
    ELSE IF metadata.status = "expired" \/ now > metadata.expiresAt THEN "expired"
    ELSE "shown"

\* A visitor opens the link of invitation i: the effect of the page calls
\* loadInviteMetadata, whose only await is the getDoc of getInviteMetadata.
loadInviteMetadata(s, i) ==
    /\ Free(s)
    /\ LET c == [Begin("preview", "getDoc", NoUser) EXCEPT !.inviteId = i]
           metadata == getInviteMetadata(invitations, i)
       IN  Set(s, [Done(c, PageOutcome(metadata)) EXCEPT !.value = metadata])
    /\ UNCHANGED <<store, links, now, nextAuto, nextToken, pending, session, hook>>

\* Invitations are created, accepted, cancelled and regenerated by calls that
\* run one after another, and visitors open the links.
PreviewNext ==
    \/ SeqNext
    \/ \E i \in InviteIds : loadInviteMetadata(1, i)

SpecPreview == Init /\ [][PreviewNext]_vars

-----------------------------------------------------------------------------
(* Cloud Function acceptInviteSecure *)

\* validation.invitation: the four fields validateInviteToken returns with
\* valid: true
ValidatedInvitation(inv) ==
    [email |-> inv.email, teamId |-> inv.teamId, role |-> inv.role, metadata |-> inv.metadata]

\* The call, the authentication check, validateInviteToken.handler up to its
\* await of the expiry write, and the comparison of the emails.
acceptInviteSecure(s, u, i, tok) ==
    /\ Free(s)
    /\ LET c == [Begin("secure", "expire", u) EXCEPT !.inviteId = i, !.token = tok]
           inv == getDoc(invitations, i)
           chk == ValidateCheck(inv, tok)
       IN  IF u = NoUser THEN Set(s, Done(c, "unauthenticated"))
           ELSE IF chk = "expired" THEN Set(s, c)
           ELSE IF chk # "valid" THEN Set(s, Done(c, chk))
           ELSE LET invitation == ValidatedInvitation(inv)
                IN  IF trim(toLowerCase(UserEmail(u))) # trim(toLowerCase(invitation.email))
                    THEN Set(s, Done(c, "email_mismatch"))
                    ELSE Set(s, [c EXCEPT !.pc = "isMember", !.snap = invitation])
    /\ UNCHANGED <<store, links, now, nextAuto, nextToken, pending, session, hook>>

\* await inviteDoc.ref.update({status: 'expired'}) inside the handler of
\* validateInviteToken; acceptInviteSecure returns validation.reason
secureExpire(s) ==
    /\ At(s, "secure", "expire")
    /\ invitations' = [invitations EXCEPT ![calls[s].inviteId] = Update(@, [status |-> "expired"])]
    /\ Set(s, Done(calls[s], "expired"))
    /\ UNCHANGED <<teams, members, userTeams, links, now, nextAuto, nextToken, pending, session, hook>>

\* await ...collection('members').where('uid', '==', uid).where('status', '==', 'active').get()
secureIsMember(s) ==
    /\ At(s, "secure", "isMember")
    /\ IF ActiveMembersByUid(calls[s].snap.teamId, calls[s].caller) # {}
       THEN Set(s, Done(calls[s], "already_member"))
       ELSE Set(s, [calls[s] EXCEPT !.pc = "commit"])
    /\ UNCHANGED <<store, links, now, nextAuto, nextToken, pending, session, hook>>

\* the member document of the transaction; invitation is validation.invitation,
\* which has no createdBy, so that invitedBy is undefined and, where the
\* transaction accepts the document, absent from it
SecureMember(invitation, u) ==
    [teamId |-> invitation.teamId, uid |-> u, email |-> trim(toLowerCase(UserEmail(u))),
     role |-> invitation.role, status |-> "active"]

\* await runTransaction(...): the three writes
secureCommit(s) ==
    /\ At(s, "secure", "commit")
    /\ nextAuto <= MaxMemberDocs
    /\ LET c == calls[s]
       IN  /\ members' = Put(members, nextAuto, SecureMember(c.snap, c.caller))
           /\ userTeams' = Put(userTeams, nextAuto, InvitedRef(c.snap, c.caller))
           /\ invitations' = [invitations EXCEPT ![c.inviteId] = Update(@, AcceptedFields(c.caller))]
           /\ nextAuto' = nextAuto + 1
           /\ Set(s, Done(c, "success"))
    /\ UNCHANGED <<teams, links, now, nextToken, pending, session, hook>>

\* runTransaction rejects (the undefined invitedBy is refused, or the store
\* fails): nothing is written and the catch block throws 'internal'
secureCommitFail(s) ==
    /\ At(s, "secure", "commit")
    /\ Set(s, Done(calls[s], "error"))
    /\ UNCHANGED <<store, links, now, nextAuto, nextToken, pending, session, hook>>

\* 72 hours pass while no call is in flight
QuietTick == (\A s \in Slots : calls[s].pc = "idle") /\ Tick

\* The engine's accept and the callable acceptInviteSecure, each call run to
\* its end before the next one starts.
SecureNext ==
    \/ QuietTick
    \/ Return(1)
    \/ \E u \in Founders : createTeam(1, u)
    \/ \E u \in Founders, t \in TeamIds, e \in EmailInputs, r \in InviteRoles :
            createInvitation(1, u, t, e, r)
    \/ createPendingQuery(1)
    \/ createMemberQuery(1)
    \/ createWrite(1)
    \/ \E u \in Users \cup {NoUser}, i \in InviteIds, tok \in TokenInputs :
            acceptInvitation(1, u, i, tok)
    \/ acceptExpire(1)
    \/ acceptIsMember(1)
    \/ acceptCommit(1)
    \/ acceptCommitFail(1)
    \/ \E u \in Users \cup {NoUser}, i \in InviteIds, tok \in TokenInputs :
            acceptInviteSecure(1, u, i, tok)
    \/ secureExpire(1)
    \/ secureIsMember(1)
    \/ secureCommit(1)
    \/ secureCommitFail(1)

SpecSecure == Init /\ [][SecureNext]_vars

-----------------------------------------------------------------------------
(* CryptoService.hashToken and verifyToken applied to tokens *)

MaxCryptoTokens == 11

\* the tokens handed to CryptoService
CryptoTokens == 0..MaxCryptoTokens

\* await cryptoService.hashToken(t): the promise resolves with the digest
callHashToken(s, t) ==
    /\ Free(s)
    /\ Set(s, [Done([Begin("hashToken", "digest", NoUser) EXCEPT !.token = t], "resolved")
                  EXCEPT !.value = [hash |-> hashToken(t)]])
    /\ UNCHANGED <<store, links, now, nextAuto, nextToken, pending, session, hook>>

\* await cryptoService.verifyToken(t, hash) for the hash that hashToken gave
\* for the token t1: the promise resolves with the comparison
callVerifyToken(s, t, t1) ==
    /\ Free(s)
    /\ LET hash == hashToken(t1)
       IN  Set(s, [Done([Begin("verifyToken", "digest", NoUser) EXCEPT !.token = t], "resolved")
                      EXCEPT !.value = [of |-> t1, hash |-> hash, valid |-> verifyToken(t, hash)]])
    /\ UNCHANGED <<store, links, now, nextAuto, nextToken, pending, session, hook>>

CryptoNext ==
    \/ Return(1)
    \/ \E t \in CryptoTokens : callHashToken(1, t)
    \/ \E t \in CryptoTokens, t1 \in CryptoTokens : callVerifyToken(1, t, t1)

SpecCrypto == Init /\ [][CryptoNext]_vars

-----------------------------------------------------------------------------
(* Teams founded with a member limit *)

\* the limits teams are founded with: a small one and the default
TeamLimits == {2, 50}

\* The owner u1 founds a team with a limit and invites a@x.com and b@x.com;
\* the invited accounts accept.  Calls run one after another.
LimitNext ==
    \/ Return(1)
    \/ \E n \in TeamLimits : createTeamWith(1, "u1", n)
    \/ \E t \in TeamIds, e \in {Email("a", FALSE, FALSE), Email("b", FALSE, FALSE)} :
            createInvitation(1, "u1", t, e, "member")
    \/ createPendingQuery(1)
    \/ createMemberQuery(1)
    \/ createWrite(1)
    \/ \E u \in {"u2", "u3"}, i \in InviteIds, tok \in TokenInputs : acceptInvitation(1, u, i, tok)
    \/ acceptIsMember(1)
    \/ acceptCommit(1)
    \/ acceptCommitFail(1)

SpecLimit == Init /\ [][LimitNext]_vars

----------------------------------------------------------------------------
(* Vocabulary of the properties *)

\* this step is the first step of a call of operation o in slot s
Started(s, o) == calls[s].pc = "idle" /\ calls'[s].op = o

\* the invitation a call names, as stored before the step
Named(c) == getDoc(invitations, c.inviteId)

Authenticated(c) == c.caller # NoUser

Returned(s, o, r) == calls[s].op = o /\ calls[s].pc = "done" /\ calls[s].result = r

Returns(s, r) == calls'[s].pc = "done" /\ calls'[s].result = r

Invited(inv, u) == Canonical(UserEmail(u)) = Canonical(inv.email)

Live(inv) == Exists(inv) /\ inv.status = "pending" /\ now <= inv.expiresAt

MembersOf(t, u) == {m \in DOMAIN members : members[m].teamId = t /\ members[m].uid = u}
RefsOf(t, u) == {r \in DOMAIN userTeams : userTeams[r].teamId = t /\ userTeams[r].uid = u}

----------------------------------------------------------------------------
\* C1: single-use acceptance, calls running one after another.  An accept
\* with the issued token by the invited identity on a live invitation passes
\* every check; the commit that succeeds turns a pending invitation into an
\* accepted one and adds exactly one Membership and one UserTeamRef; a
\* non-pending invitation never becomes pending again; and every accept on a
\* non-pending invitation returns "already processed" and writes nothing.
C1_SingleUse ==
    [][\A s \in Slots :
        /\ (Started(s, "accept") /\ Authenticated(calls'[s]))
            => LET inv == Named(calls'[s])
               IN  /\ (Live(inv) /\ verifyToken(calls'[s].token, inv.tokenHash)
                                 /\ Invited(inv, calls'[s].caller))
                        => calls'[s].pc = "isMember" /\ calls'[s].snap = inv
                   /\ (Exists(inv) /\ inv.status # "pending")
                        => Returns(s, "processed") /\ store' = store
        /\ (At(s, "accept", "commit") /\ Returns(s, "success"))
            => LET i == calls[s].inviteId
               IN  /\ invitations[i].status = "pending"
                   /\ invitations'[i].status = "accepted"
                   /\ Cardinality(DOMAIN members') = Cardinality(DOMAIN members) + 1
                   /\ Cardinality(DOMAIN userTeams') = Cardinality(DOMAIN userTeams) + 1
        /\ \A i \in DOMAIN invitations :
              invitations[i].status # "pending" => invitations'[i].status # "pending"
      ]_vars

\* a repeated accept, with the token and the identity that were accepted before,
\* has been turned away
C1_Witness ==
    \E s \in Slots :
        /\ Returned(s, "accept", "processed")
        /\ LET inv == Named(calls[s])
           IN  /\ Exists(inv) /\ inv.status = "accepted"
               /\ inv.acceptedBy = calls[s].caller
               /\ verifyToken(calls[s].token, inv.tokenHash)
               /\ Cardinality(MembersOf(inv.teamId, inv.acceptedBy)) = 1
               /\ Cardinality(RefsOf(inv.teamId, inv.acceptedBy)) = 1

----------------------------------------------------------------------------
\* C2: concurrent accepts of one invitation leave at most one active
\* Membership and one UserTeamRef per (team, uid).
C2_OneMembershipPerUser ==
    \A t \in DOMAIN teams, u \in Users :
        /\ Cardinality(ActiveMembersByUid(t, u)) <= 1
        /\ Cardinality(RefsOf(t, u)) <= 1

----------------------------------------------------------------------------
AddedMembers == (DOMAIN members') \ (DOMAIN members)
AddedRefs == (DOMAIN userTeams') \ (DOMAIN userTeams)

\* the step marks invitation i as accepted
MarksAccepted(i) ==
    \/ invitations[i].status # "accepted" /\ invitations'[i].status = "accepted"
    \/ "acceptedBy" \notin DOMAIN invitations[i] /\ "acceptedBy" \in DOMAIN invitations'[i]
    \/ "acceptedAt" \notin DOMAIN invitations[i] /\ "acceptedAt" \in DOMAIN invitations'[i]

\* the step applies the three writes of an accept of invitation i, and only them
AppliesAccept(i) ==
    LET inv == invitations'[i]
    IN  /\ inv.status = "accepted"
        /\ {"acceptedAt", "acceptedBy"} \subseteq DOMAIN inv
        /\ \E m \in AddedMembers, r \in AddedRefs :
              /\ AddedMembers = {m}
              /\ AddedRefs = {r}
              /\ members'[m].teamId = inv.teamId
              /\ members'[m].uid = inv.acceptedBy
              /\ members'[m].role = inv.role
              /\ members'[m].status = "active"
              /\ members'[m].invitedBy = inv.createdBy
              /\ userTeams'[r].uid = inv.acceptedBy
              /\ userTeams'[r].teamId = inv.teamId
              /\ userTeams'[r].role = inv.role
              /\ userTeams'[r].status = "active"

\* C3: the three writes of an accept are one atomic step.  In every step
\* that does not found a team, an invitation is marked accepted only together
\* with the insertion of its Membership and its UserTeamRef, and a Membership
\* or a UserTeamRef is inserted only together with that mark; a commit that
\* fails writes nothing.
C3_AtomicAccept ==
    [][(DOMAIN teams' = DOMAIN teams) =>
        /\ \A i \in DOMAIN invitations : MarksAccepted(i) => AppliesAccept(i)
        /\ (AddedMembers # {} \/ AddedRefs # {})
              => \E i \in DOMAIN invitations : AppliesAccept(i)
        /\ \A s \in Slots : (At(s, "accept", "commit") /\ Returns(s, "error")) => store' = store
      ]_vars

\* an accept has committed: the invitation is accepted and both records exist
C3_Witness ==
    \E s \in Slots :
        /\ Returned(s, "accept", "success")
        /\ LET inv == Named(calls[s])
           IN  /\ inv.status = "accepted"
               /\ \E m \in MembersOf(inv.teamId, calls[s].caller) : members[m].role = inv.role
               /\ \E r \in RefsOf(inv.teamId, calls[s].caller) : userTeams[r].role = inv.role

----------------------------------------------------------------------------
Terminal == {"accepted", "expired", "cancelled"}

\* C4: terminal states are absorbing: once the status of an invitation is
\* accepted, expired or cancelled, no step changes it.
C4_TerminalAbsorbing ==
    [][\A i \in DOMAIN invitations :
          invitations[i].status \in Terminal => invitations'[i].status = invitations[i].status
      ]_vars

----------------------------------------------------------------------------
\* the token most recently issued for invitation i by one of the given operations
IssuedBy(i, ops) == {k \in 1..Len(links[i]) : links[i][k].via \in ops}
Latest(i, ops) ==
    LET ks == IssuedBy(i, ops)
    IN  links[i][CHOOSE k \in ks : \A j \in ks : j <= k].token

NoTokenField(coll) == \A d \in DOMAIN coll : "token" \notin DOMAIN coll[d]

HashOfLatest(ops) ==
    \A i \in DOMAIN invitations :
        /\ invitations[i].tokenHash \notin TokenInputs
        /\ IssuedBy(i, ops) # {}
        /\ invitations[i].tokenHash = hashToken(Latest(i, ops))

\* C5 as stated: no stored record holds a raw token, and every invitation
\* stores the hash of the token returned by the latest create or regenerate.
C5_HashOfReturnedToken ==
    /\ NoTokenField(invitations) /\ NoTokenField(members)
    /\ NoTokenField(userTeams) /\ NoTokenField(teams)
    /\ HashOfLatest({"create", "regenerate"})

\* C5 as amended: no stored record holds a raw token, and every invitation
\* stores the hash of the token most recently issued for it, by create, by
\* regenerate or by the rotation of sendInviteEmail.
C5_HashOfIssuedToken ==
    /\ NoTokenField(invitations) /\ NoTokenField(members)
    /\ NoTokenField(userTeams) /\ NoTokenField(teams)
    /\ HashOfLatest({"create", "regenerate", "email"})

\* sendInviteEmail has rotated the token of an invitation
C5_Witness ==
    \E i \in DOMAIN invitations :
        /\ Len(links[i]) >= 2
        /\ links[i][Len(links[i])].via = "email"
        /\ invitations[i].tokenHash = hashToken(links[i][Len(links[i])].token)

----------------------------------------------------------------------------
\* C6: tampered token.  An accept by any authenticated caller, the invited
\* one included, on a pending unexpired invitation with a token whose hash
\* differs from the stored tokenHash returns InvalidToken and writes nothing.
C6_TamperedToken ==
    [][\A s \in Slots :
        LET c == calls'[s]
            inv == Named(c)
        IN  (Started(s, "accept") /\ Authenticated(c) /\ Live(inv)
                /\ hashToken(c.token) # inv.tokenHash)
            => Returns(s, "invalid_token") /\ store' = store
      ]_vars

\* the invited identity has presented a wrong token and the invitation is still pending
C6_Witness ==
    \E s \in Slots :
        /\ Returned(s, "accept", "invalid_token")
        /\ Live(Named(calls[s]))
        /\ Invited(Named(calls[s]), calls[s].caller)
        /\ MembersOf(Named(calls[s]).teamId, calls[s].caller) = {}

----------------------------------------------------------------------------
\* C7: email mismatch.  An accept with the valid token on a pending unexpired
\* invitation by an authenticated caller whose canonical email differs from
\* the invitation's returns the mismatch failure and writes nothing.
C7_EmailMismatch ==
    [][\A s \in Slots :
        LET c == calls'[s]
            inv == Named(c)
        IN  (Started(s, "accept") /\ Authenticated(c) /\ Live(inv)
                /\ hashToken(c.token) = inv.tokenHash
                /\ Canonical(UserEmail(c.caller)) # Canonical(inv.email))
            => Returns(s, "email_mismatch") /\ store' = store
      ]_vars

\* a caller who is not the invited one has presented the valid token
C7_Witness ==
    \E s \in Slots :
        /\ Returned(s, "accept", "email_mismatch")
        /\ Live(Named(calls[s]))
        /\ hashToken(calls[s].token) = Named(calls[s]).tokenHash
        /\ ~Invited(Named(calls[s]), calls[s].caller)

----------------------------------------------------------------------------
\* C8: expiry on accept.  expiresAt is the time of creation or regeneration
\* plus 72 hours; an accept by an authenticated caller on a pending
\* invitation with now > expiresAt goes on to write status = expired,
\* whatever token and email it carries, returns failure and inserts no
\* Membership or UserTeamRef.
C8_ExpiryOnAccept ==
    [][\A s \in Slots :
        /\ LET c == calls'[s]
               inv == Named(c)
           IN  (Started(s, "accept") /\ Authenticated(c) /\ Exists(inv)
                   /\ inv.status = "pending" /\ now > inv.expiresAt)
               => c.pc = "expire" /\ store' = store
        /\ (At(s, "accept", "expire") /\ calls'[s] # calls[s])
               => /\ Returns(s, "expired")
                  /\ invitations'[calls[s].inviteId].status = "expired"
                  /\ members' = members /\ userTeams' = userTeams
        /\ \A i \in (DOMAIN invitations') \ (DOMAIN invitations) :
               invitations'[i].expiresAt = now + 72
        /\ (Started(s, "regenerate") /\ calls'[s].pc = "write")
               => calls'[s].snap.expiresAt = now + 72
        /\ (At(s, "regenerate", "write") /\ calls'[s] # calls[s])
               => invitations'[calls[s].inviteId].expiresAt = calls[s].snap.expiresAt
      ]_vars

\* the invited identity came too late with the valid token
C8_Witness ==
    \E s \in Slots :
        /\ Returned(s, "accept", "expired")
        /\ LET inv == Named(calls[s])
           IN  /\ inv.status = "expired"
               /\ now > inv.expiresAt
               /\ hashToken(calls[s].token) = inv.tokenHash
               /\ Invited(inv, calls[s].caller)
               /\ MembersOf(inv.teamId, calls[s].caller) = {}

----------------------------------------------------------------------------
\* C9: regenerate invalidates the old token.  While the latest link of a
\* pending unexpired invitation comes from regenerate, an accept by the
\* invited identity with any earlier token of that invitation returns
\* InvalidToken and writes nothing, and an accept with the new token passes
\* every check on the invitation; its commit marks the invitation accepted.
C9_RegenerateInvalidatesOld ==
    [][\A s \in Slots :
        /\ LET c == calls'[s]
               inv == Named(c)
               n == Len(links[c.inviteId])
           IN  (Started(s, "accept") /\ Authenticated(c) /\ Live(inv) /\ Invited(inv, c.caller)
                   /\ links[c.inviteId][n].via = "regenerate")
               => /\ (\E k \in 1..(n - 1) : links[c.inviteId][k].token = c.token)
                        => Returns(s, "invalid_token") /\ store' = store
                  /\ (c.token = links[c.inviteId][n].token)
                        => c.pc = "isMember" /\ c.snap = inv
        /\ (At(s, "accept", "commit") /\ calls'[s] # calls[s] /\ ~Returns(s, "error"))
               => Returns(s, "success") /\ invitations'[calls[s].inviteId].status = "accepted"
      ]_vars

\* the new token of a regenerated invitation has been accepted
C9_Witness ==
    \E s \in Slots :
        /\ Returned(s, "accept", "success")
        /\ LET i == calls[s].inviteId
               n == Len(links[i])
           IN  /\ n >= 2
               /\ links[i][n].via = "regenerate"
               /\ links[i][n].token = calls[s].token
               /\ invitations[i].status = "accepted"

----------------------------------------------------------------------------
\* C10: at most one pending invitation per (teamId, canonical email).
C10_OnePendingPerEmail ==
    \A t \in DOMAIN teams, e \in EmailInputs : Cardinality(PendingInvitesFor(t, e)) <= 1

----------------------------------------------------------------------------
----------------------------------------------------------------------------
\* the UserTeamRefs of the Membership m and the Memberships of the UserTeamRef r
RefsFor(m) == RefsOf(members[m].teamId, members[m].uid)
MembersFor(r) == MembersOf(userTeams[r].teamId, userTeams[r].uid)

\* C12: Membership and UserTeamRef in lockstep: every active Membership has
\* exactly one UserTeamRef under its uid for its team, with the same role and
\* status, and every UserTeamRef has exactly one such Membership.
C12_Lockstep ==
    /\ \A m \in DOMAIN members :
          members[m].status = "active" =>
            /\ Cardinality(RefsFor(m)) = 1
            /\ \A r \in RefsFor(m) : /\ userTeams[r].role = members[m].role
                                      /\ userTeams[r].status = members[m].status
    /\ \A r \in DOMAIN userTeams :
            /\ Cardinality(MembersFor(r)) = 1
            /\ \A m \in MembersFor(r) : /\ members[m].role = userTeams[r].role
                                         /\ members[m].status = userTeams[r].status

----------------------------------------------------------------------------
\* C13: the three-way write of an accept is applied only if, when it commits,
\* the invitation is still pending, not past expiresAt and still stores the
\* tokenHash the presented token was verified against; otherwise the accept
\* fails and writes nothing.
C13_RecheckedAtCommit ==
    [][\A s \in Slots :
          (At(s, "accept", "commit") /\ calls'[s] # calls[s])
          => LET inv == invitations[calls[s].inviteId]
             IN  \/ /\ inv.status = "pending"
                    /\ now <= inv.expiresAt
                    /\ inv.tokenHash = calls[s].snap.tokenHash
                 \/ /\ store' = store
                    /\ ~Returns(s, "success")
      ]_vars

----------------------------------------------------------------------------
\* C14: once processPendingInvite has completed for the cached PendingInvite,
\* whether its accept succeeded or failed, the PendingInviteCache is empty.
C14_CacheClearedAfterResume ==
    \A s \in Slots :
        (calls[s].resume /\ calls[s].pc = "done" /\ hook.submitted >= 1)
        => pending = NoPending

----------------------------------------------------------------------------
\* C15: the resume coordinator is single-shot: it calls accept at most once
\* for one cached PendingInvite.
C15_SingleShot == hook.submitted <= 1

----------------------------------------------------------------------------
\* the PendingInvite that the stored item holds
Cached == JSONparse(pending.item)

\* the account u has just signed in, within the hour, in a browser whose cache
\* holds the valid token of the live invitation i addressed to u, who is not a
\* member yet; the coordinator is idle: nothing is being processed and the
\* listener in place was subscribed in that state
ResumeReady(u, i) ==
    /\ hook.notify = u
    /\ session = u
    /\ ~hook.processing
    /\ ~hook.subscribed
    /\ pending # NoPending
    /\ Cached.inviteId = i
    /\ now - Cached.timestamp.iso <= 1
    /\ i \in DOMAIN invitations
    /\ Live(invitations[i])
    /\ verifyToken(Cached.token, invitations[i].tokenHash)
    /\ Invited(invitations[i], u)
    /\ ~isUserMemberByUid(invitations[i].teamId, u)

Joined(u, i) ==
    /\ i \in DOMAIN invitations
    /\ invitations[i].status = "accepted"
    /\ invitations[i].acceptedBy = u
    /\ isUserMemberByUid(invitations[i].teamId, u)

----------------------------------------------------------------------------
\* u has an active Membership of team t with one of the roles rs
HoldsRole(t, u, rs) ==
    \E m \in DOMAIN members :
        /\ members[m].teamId = t /\ members[m].uid = u
        /\ members[m].status = "active" /\ members[m].role \in rs

OwnerOf(t) == IF t \in DOMAIN teams THEN teams[t].ownerUid ELSE NoUser

\* C17: a cancel or a regenerate by a caller who is neither the createdBy of
\* the invitation nor the owner of its team fails with PermissionDenied and
\* leaves the invitation (status, tokenHash, expiresAt) and the rest of the
\* store unchanged.
C17_ManagePermission ==
    [][\A s \in Slots :
        LET c == calls'[s]
            inv == Named(c)
        IN  ((Started(s, "cancel") \/ Started(s, "regenerate"))
                /\ Authenticated(c) /\ Exists(inv)
                /\ inv.createdBy # c.caller /\ OwnerOf(inv.teamId) # c.caller)
            => /\ Returns(s, "permission_denied")
               /\ store' = store /\ links' = links /\ nextToken' = nextToken
      ]_vars

\* an admin of the team was refused the regeneration of a pending invitation
\* that another account created
C17_Witness ==
    \E s \in Slots :
        /\ Returned(s, "regenerate", "permission_denied")
        /\ LET inv == Named(calls[s])
           IN  /\ Exists(inv) /\ inv.status = "pending"
               /\ inv.createdBy # calls[s].caller
               /\ HoldsRole(inv.teamId, calls[s].caller, {"admin"})

----------------------------------------------------------------------------
\* C18: tokenHash and expiresAt are replaced only while the status is
\* pending: a regenerate or a sendInviteEmail on an accepted, expired or
\* cancelled invitation fails and writes nothing, no step replaces either
\* field of an invitation that is not pending, and an invitation whose hash
\* was replaced carries an expiresAt that is not in the past.
C18_RotateOnlyPending ==
    [][/\ \A s \in Slots :
            LET c == calls'[s]
                inv == Named(c)
            IN  ((Started(s, "regenerate") \/ Started(s, "sendEmail"))
                    /\ Authenticated(c) /\ Exists(inv) /\ inv.status # "pending")
                => /\ c.pc = "done" /\ c.result # "ok"
                   /\ store' = store /\ links' = links
       /\ \A i \in DOMAIN invitations :
            (invitations'[i].tokenHash # invitations[i].tokenHash
                \/ invitations'[i].expiresAt # invitations[i].expiresAt)
            => invitations[i].status = "pending"
       /\ \A i \in DOMAIN invitations :
            invitations'[i].tokenHash # invitations[i].tokenHash
            => invitations'[i].expiresAt >= now
      ]_vars

----------------------------------------------------------------------------
\* C19: a create by a caller who is neither the ownerUid of the team nor an
\* active member with role admin or owner fails with PermissionDenied and
\* writes nothing.
C19_CreatePermission ==
    [][\A s \in Slots :
        LET c == calls'[s]
        IN  (Started(s, "create") /\ Authenticated(c)
                /\ OwnerOf(c.teamId) # c.caller
                /\ ~HoldsRole(c.teamId, c.caller, {"admin", "owner"}))
            => /\ Returns(s, "permission_denied")
               /\ store' = store /\ links' = links /\ nextToken' = nextToken
      ]_vars

\* an active member with role member was refused
C19_Witness ==
    \E s \in Slots, t \in DOMAIN teams :
        /\ Returned(s, "create", "permission_denied")
        /\ HoldsRole(t, calls[s].caller, {"member"})
        /\ DOMAIN invitations # {}

----------------------------------------------------------------------------
\* C20: a create for an address whose canonical form equals that of the
\* email of an active Membership of the team, the owner's included, fails with
\* Conflict at the member check at the latest and writes no Invitation.
C20_MemberConflict ==
    [][\A s \in Slots :
        LET c == calls[s]
            taken == \E m \in DOMAIN members :
                        /\ members[m].teamId = c.teamId
                        /\ members[m].status = "active"
                        /\ Canonical(members[m].email) = Canonical(c.email)
        IN  /\ (At(s, "create", "memberQuery") /\ calls'[s] # c /\ taken)
                => Returns(s, "conflict_member") /\ store' = store
            /\ (At(s, "create", "write") /\ calls'[s] # c /\ taken)
                => invitations' = invitations
      ]_vars

----------------------------------------------------------------------------
\* C21: case-insensitivity.  An accept with the valid token on a pending
\* unexpired invitation by a caller whose email equals the invitation's after
\* lower-casing and trimming both passes the checks made on the invitation;
\* the call then goes on to the commit unless the caller already is an active
\* member of the team, the commit succeeds unless the store rejects it, and
\* the Membership it writes stores the canonical form of the address.
C21_CaseInsensitive ==
    [][\A s \in Slots :
        /\ LET c == calls'[s]
               inv == Named(c)
           IN  (Started(s, "accept") /\ Authenticated(c) /\ Live(inv)
                    /\ hashToken(c.token) = inv.tokenHash
                    /\ Canonical(UserEmail(c.caller)) = Canonical(inv.email))
               => c.pc = "isMember" /\ c.snap = inv
        /\ (At(s, "accept", "isMember") /\ calls'[s] # calls[s]
                /\ ~HoldsRole(calls[s].snap.teamId, calls[s].caller, {"owner", "admin", "member"}))
            => calls'[s].pc = "commit"
        /\ (At(s, "accept", "commit") /\ calls'[s] # calls[s])
            => \/ Returns(s, "error") /\ store' = store
               \/ /\ Returns(s, "success")
                  /\ \E m \in AddedMembers :
                        /\ members'[m].uid = calls[s].caller
                        /\ members'[m].email = Canonical(calls[s].snap.email)
                        /\ members'[m].email = Canonical(UserEmail(calls[s].caller))
      ]_vars

\* an account whose address is written in capitals has joined through an
\* invitation sent to the lower-case address
C21_Witness ==
    \E s \in Slots :
        /\ Returned(s, "accept", "success")
        /\ LET inv == Named(calls[s])
               u == calls[s].caller
           IN  /\ UserEmail(u) # inv.email
               /\ Canonical(UserEmail(u)) = inv.email
               /\ \E m \in MembersOf(inv.teamId, u) : members[m].email = inv.email

----------------------------------------------------------------------------
\* C22: expiry on preview.  Opening the link of an invitation whose status is
\* pending and whose expiresAt is in the past sets the stored status to
\* expired and creates no Membership.
C22_ExpiryOnPreview ==
    [][\A s \in Slots :
        LET inv == Named(calls'[s])
        IN  (Started(s, "preview") /\ Exists(inv) /\ inv.status = "pending"
                /\ now > inv.expiresAt)
            => /\ invitations'[calls'[s].inviteId].status = "expired"
               /\ members' = members /\ userTeams' = userTeams
      ]_vars

----------------------------------------------------------------------------
PublicFields == {"id", "teamId", "email", "role", "status", "expiresAt", "createdAt", "metadata"}

\* the hashes a stored invitation can carry
Hashes == {hashToken(k) : k \in Tokens}

\* C23 as stated: the metadata of an existing invitation carries every field
\* of the stored Invitation except tokenHash (createdBy and, once accepted,
\* acceptedAt and acceptedBy included), and nothing is written.
C23_AllButTokenHash ==
    [][\A s \in Slots :
        LET inv == Named(calls'[s])
            meta == calls'[s].value
        IN  (Started(s, "preview") /\ Exists(inv))
            => /\ DOMAIN meta = ((DOMAIN inv) \ {"tokenHash"}) \cup {"id"}
               /\ \A f \in (DOMAIN inv) \ {"tokenHash"} : meta[f] = inv[f]
               /\ store' = store
      ]_vars

\* C23, amended: the metadata of an existing invitation is exactly its id,
\* teamId, email, role, status, expiresAt, createdAt and metadata as stored;
\* it carries no tokenHash (and no createdBy, acceptedAt or acceptedBy),
\* nothing is written, and the result is the same whatever tokenHash the
\* invitation stores.
C23_PublicMetadata ==
    [][\A s \in Slots :
        LET i == calls'[s].inviteId
            inv == Named(calls'[s])
            meta == calls'[s].value
        IN  (Started(s, "preview") /\ Exists(inv))
            => /\ DOMAIN meta = PublicFields
               /\ meta.id = i
               /\ \A f \in PublicFields \ {"id"} : meta[f] = inv[f]
               /\ store' = store /\ links' = links
               /\ \A h \in Hashes :
                    getInviteMetadata([invitations EXCEPT ![i].tokenHash = h], i) = meta
      ]_vars

\* a visitor was served the metadata of an accepted invitation, which stores
\* tokenHash, createdBy, acceptedAt and acceptedBy
C23_Witness ==
    \E s \in Slots :
        /\ Returned(s, "preview", "accepted")
        /\ Exists(calls[s].value)
        /\ {"tokenHash", "createdBy", "acceptedAt", "acceptedBy"} \subseteq DOMAIN Named(calls[s])

----------------------------------------------------------------------------
\* this step ends a call of acceptInvitation in slot s
Settles(s) == calls[s].pc # "done" /\ calls'[s].pc = "done" /\ calls'[s].op = "accept"

\* C24 as stated, the clause on the message: the message of an accept turned
\* away for a status other than pending names that status, so it is not the
\* message the same call would get on another non-pending status.
C24_MessageNamesStatus ==
    [][\A s \in Slots :
        LET c == calls'[s]
            inv == Named(c)
        IN  (Started(s, "accept") /\ Authenticated(c) /\ Exists(inv) /\ inv.status # "pending")
            => \A st \in Terminal \ {inv.status} :
                    acceptSettled(AcceptCheck([inv EXCEPT !.status = st], c.token, c.caller)).value.message
                        # c.value.value.message
      ]_vars

\* C24, amended: accept never rejects.  Every call settles fulfilled with an
\* object of exactly the fields success and message; success is true exactly
\* when the call has written the Membership, and every failure, the missing
\* caller identity and the rejected commit included, writes no Membership and
\* carries success = false; an accept on an invitation that is not pending
\* gets the one fixed message "already processed or cancelled".
C24_StructuredResult ==
    [][\A s \in Slots :
        Settles(s) =>
            LET v == calls'[s].value
                inv == Named(calls'[s])
            IN  /\ v.state = "fulfilled"
                /\ DOMAIN v.value = {"success", "message"}
                /\ v.value.success \in BOOLEAN
                /\ v.value.success <=> (members' # members)
                /\ v.value.success => v.value.message = "Convite aceito com sucesso!"
                /\ ~Authenticated(calls'[s]) => ~v.value.success /\ store' = store
                /\ (Started(s, "accept") /\ Authenticated(calls'[s])
                        /\ Exists(inv) /\ inv.status # "pending")
                    => /\ ~v.value.success
                       /\ v.value.message = "Este convite ja foi processado ou cancelado"
      ]_vars

\* the exception raised for a missing caller identity came back as a result
C24_Witness ==
    \E s \in Slots :
        /\ Returned(s, "accept", "unauthenticated")
        /\ calls[s].value.state = "fulfilled"
        /\ calls[s].value.value.success = FALSE

----------------------------------------------------------------------------
\* the Membership a call of removeMember or updateMemberRole names, as stored
\* before the step
Target(c) ==
    IF c.memberId \in DOMAIN members /\ members[c.memberId].teamId = c.teamId
    THEN members[c.memberId] ELSE NoDoc

OwnerTarget(c) == Exists(Target(c)) /\ Target(c).role = "owner"

\* the spec's canInvite, spelled out
MayInvite(t, u) == OwnerOf(t) = u \/ HoldsRole(t, u, {"admin", "owner"})

\* this step is a step of the call of operation o running in slot s
StepOf(s, o) == calls'[s] # calls[s] /\ calls'[s].op = o

\* C25 as stated: a removeMember on a Membership whose role is owner ends,
\* whoever calls, with InvariantViolation and no other failure.
C25_OwnerRemovalAnyCaller ==
    [][\A s \in Slots :
        (StepOf(s, "remove") /\ OwnerTarget(calls'[s]) /\ calls'[s].pc = "done")
            => Returns(s, "owner") /\ store' = store
      ]_vars

\* C25, amended: a removeMember on a Membership whose role is owner fails
\* for every caller and writes nothing: with Unauthenticated without a caller
\* identity, with PermissionDenied when canInvite is false for the caller,
\* and with InvariantViolation for every caller who passes canInvite; no
\* step of a removeMember call changes or deletes a Membership whose role is
\* owner or a UserTeamRef of its uid for its team.
C25_OwnerNotRemovable ==
    [][\A s \in Slots :
        /\ (Started(s, "remove") /\ OwnerTarget(calls'[s]))
            => LET c == calls'[s]
               IN  /\ store' = store
                   /\ IF ~Authenticated(c) THEN Returns(s, "unauthenticated")
                      ELSE IF ~MayInvite(c.teamId, c.caller) THEN Returns(s, "permission_denied")
                      ELSE c.pc = "getMember"
        /\ (At(s, "remove", "getMember") /\ StepOf(s, "remove") /\ OwnerTarget(calls[s]))
            => Returns(s, "owner") /\ store' = store
        /\ StepOf(s, "remove")
            => \A m \in DOMAIN members :
                    members[m].role = "owner"
                    => /\ m \in DOMAIN members' /\ members'[m] = members[m]
                       /\ \A r \in RefsFor(m) :
                            r \in DOMAIN userTeams' /\ userTeams'[r] = userTeams[r]
      ]_vars

\* an admin who is not the owner asked for the removal of the owner's Membership
C25_Witness ==
    \E s \in Slots :
        /\ Returned(s, "remove", "owner")
        /\ \E t \in DOMAIN teams, m \in DOMAIN members :
                /\ members[m].role = "owner" /\ members[m].teamId = t
                /\ RefsFor(m) # {}
                /\ OwnerOf(t) # calls[s].caller
                /\ HoldsRole(t, calls[s].caller, {"admin"})

----------------------------------------------------------------------------
\* C26: a removeMember by a caller who is neither the ownerUid of the team
\* nor an active member with role admin or owner fails with PermissionDenied,
\* and no Membership and no UserTeamRef is deleted or changed.
C26_RemovePermission ==
    [][\A s \in Slots :
        LET c == calls'[s]
        IN  (Started(s, "remove") /\ Authenticated(c) /\ ~MayInvite(c.teamId, c.caller))
            => Returns(s, "permission_denied") /\ store' = store
      ]_vars

\* an active member with role member asked for the removal of another
\* account's Membership, which is not the owner's
C26_Witness ==
    \E s \in Slots :
        /\ Returned(s, "remove", "permission_denied")
        /\ HoldsRole(calls[s].teamId, calls[s].caller, {"member"})
        /\ Exists(Target(calls[s]))
        /\ Target(calls[s]).role # "owner"
        /\ Target(calls[s]).uid # calls[s].caller

----------------------------------------------------------------------------
\* C27: an updateMemberRole by a caller other than the ownerUid of the team
\* fails and changes nothing; a call by the owner on a Membership that exists
\* succeeds, and the commit that succeeds leaves the Membership and every
\* UserTeamRef of its uid for the team with the new role, written in one step.
C27_RoleUpdate ==
    [][\A s \in Slots :
        /\ LET c == calls'[s]
           IN  (Started(s, "updateRole") /\ OwnerOf(c.teamId) # c.caller)
               => c.pc = "done" /\ c.result # "ok" /\ store' = store
        /\ (At(s, "updateRole", "commit") /\ StepOf(s, "updateRole"))
            => LET c == calls[s]
               IN  /\ Exists(Target(c)) => Returns(s, "ok")
                   /\ ~Returns(s, "ok") => store' = store
                   /\ Returns(s, "ok")
                        => /\ members'[c.memberId].role = c.role
                           /\ \A r \in DOMAIN userTeams' :
                                (userTeams'[r].uid = members'[c.memberId].uid
                                    /\ userTeams'[r].teamId = c.teamId)
                                => userTeams'[r].role = c.role
      ]_vars

----------------------------------------------------------------------------
\* C28: createTeam without a verified caller identity fails with an
\* Unauthenticated error that reaches the caller (the promise rejects) and
\* writes nothing; with a verified caller it writes, in one step, the Team
\* with ownerUid = caller, the caller's active owner Membership and the
\* matching UserTeamRef.
C28_CreateTeam ==
    [][\A s \in Slots :
        Started(s, "createTeam") =>
            LET c == calls'[s]
                t == NewTeamId
            IN  IF ~Authenticated(c)
                THEN /\ c.pc = "done" /\ c.value.state = "rejected"
                     /\ store' = store
                ELSE /\ Returns(s, "ok")
                     /\ DOMAIN teams' = DOMAIN teams \cup {t}
                     /\ teams'[t].ownerUid = c.caller
                     /\ \E m \in AddedMembers :
                            /\ AddedMembers = {m}
                            /\ members'[m].teamId = t /\ members'[m].uid = c.caller
                            /\ members'[m].role = "owner" /\ members'[m].status = "active"
                     /\ \E r \in AddedRefs :
                            /\ AddedRefs = {r}
                            /\ userTeams'[r].teamId = t /\ userTeams'[r].uid = c.caller
                            /\ userTeams'[r].role = "owner" /\ userTeams'[r].status = "active"
      ]_vars

----------------------------------------------------------------------------
\* the teams in which u holds an active Membership, and the UserTeamRefs under u
TeamsOf(u) == {members[m].teamId : m \in {k \in DOMAIN members :
                                            members[k].uid = u /\ members[k].status = "active"}}
RefsUnder(u) == {r \in DOMAIN userTeams : userTeams[r].uid = u}

\* C29: multi-team.  An accept that has passed the checks on the invitation
\* goes on to its commit whenever the caller has no active Membership of the
\* invitation's team, whatever Memberships of other teams the caller holds;
\* and, calls running one after another, an account with active Memberships
\* in two teams has exactly two UserTeamRefs, one for each of the two teams.
C29_MultiTeam ==
    [][/\ \A s \in Slots :
            (At(s, "accept", "isMember") /\ StepOf(s, "accept")
                /\ calls[s].snap.teamId \notin TeamsOf(calls[s].caller))
            => calls'[s].pc = "commit"
       /\ \A u \in Users :
            Cardinality(TeamsOf(u)) = 2
            => /\ Cardinality(RefsUnder(u)) = 2
               /\ {userTeams[r].teamId : r \in RefsUnder(u)} = TeamsOf(u)
      ]_vars

\* an account that owns one team has joined the other by invitation: it holds
\* active Memberships in two teams and has two UserTeamRefs
C29_Witness ==
    \E s \in Slots, u \in Users :
        /\ Returned(s, "accept", "success")
        /\ calls[s].caller = u
        /\ Cardinality(TeamsOf(u)) = 2
        /\ Cardinality(RefsUnder(u)) = 2

----------------------------------------------------------------------------
\* C30: PendingInviteCache round trip.  Right after save(inviteId, token),
\* whatever was cached before, get() returns exactly {inviteId, token,
\* timestamp} of that save; as long as no hour has passed and nothing was
\* saved or cleared, get() keeps returning it; and a step without a save
\* never brings back an entry other than the one get() returned before.
C30_CacheRoundTrip ==
    [][/\ \A s \in Slots :
            Started(s, "handleAccept")
            => getPendingInvite' = [inviteId  |-> calls'[s].inviteId,
                                    token     |-> calls'[s].token,
                                    timestamp |-> [iso |-> now]]
       /\ (\A s \in Slots : ~Started(s, "handleAccept"))
            => /\ getPendingInvite' \in {getPendingInvite, NoPending}
               /\ (pending' = pending /\ pending # NoPending /\ now' - Cached.timestamp.iso < 1)
                    => getPendingInvite' = getPendingInvite /\ getPendingInvite' # NoPending
      ]_vars

\* a save made after the clock has moved is what get() returns
C30_Witness ==
    \E s \in Slots :
        /\ Returned(s, "handleAccept", "login")
        /\ now > 0
        /\ getPendingInvite # NoPending
        /\ getPendingInvite.inviteId = calls[s].inviteId
        /\ getPendingInvite.token = calls[s].token
        /\ getPendingInvite.timestamp = [iso |-> now]

\* ---------------------------------------------------------------------------
\* C31  staleness of the cached entry

\* the listener's callback runs processPendingInvite(), and with it
\* getPendingInvite(), in this step
GetRuns == hook.notify # NoUser /\ hook'.notify = NoUser /\ ~hook.subscribed

\* hours between the timestamp of the cached entry and now
CachedAge == now - DateOf(Cached.timestamp)

\* the accept the coordinator starts in this step in slot s
ResumeStarted(s) == calls[s].pc = "idle" /\ calls'[s].op = "accept" /\ calls'[s].resume

\* C31: getPendingInvite() on an entry stamped more than 1 hour before now
\* returns none and removes the entry from storage; on a fresher entry it
\* returns that entry and leaves storage unchanged; every accept the resume
\* coordinator starts carries the inviteId and token of an entry at most 1
\* hour old.
C31_Staleness ==
    [][ /\ (GetRuns /\ pending # NoPending /\ CachedAge > 1)
            => (pending' = NoPending /\ calls' = calls)
        /\ (GetRuns /\ pending # NoPending /\ CachedAge <= 1)
            => /\ pending' = pending
               /\ \E s \in Slots : /\ ResumeStarted(s)
                                   /\ calls'[s].inviteId = Cached.inviteId
                                   /\ calls'[s].token = Cached.token
        /\ \A s \in Slots : ResumeStarted(s)
            => (pending # NoPending /\ CachedAge <= 1)
      ]_vars

\* the callback of a signed-in user is about to run getPendingInvite() on an
\* entry saved two hours ago
C31_Witness ==
    /\ hook.notify # NoUser
    /\ session = hook.notify
    /\ ~hook.subscribed
    /\ Free(1)
    /\ pending # NoPending
    /\ CachedAge = 2

\* ---------------------------------------------------------------------------
\* C32  acceptInviteSecure against the engine's accept

\* run alone from the current state, accept(i, tok) by u succeeds
EngineSucceeds(u, i, tok) ==
    /\ u # NoUser
    /\ i \in DOMAIN invitations
    /\ invitations[i].status = "pending"
    /\ now <= invitations[i].expiresAt
    /\ hashToken(tok) = invitations[i].tokenHash
    /\ Canonical(UserEmail(u)) = Canonical(invitations[i].email)
    /\ ~HoldsRole(invitations[i].teamId, u, {"owner", "admin", "member"})

\* run alone from the current state, accept(i, tok) by u finds the invitation
\* timed out
EngineExpires(u, i, tok) ==
    /\ u # NoUser
    /\ i \in DOMAIN invitations
    /\ invitations[i].status = "pending"
    /\ now > invitations[i].expiresAt

\* the store that accept(i, tok) by u, run alone from the current state, leaves
EngineStore(u, i, tok) ==
    IF EngineSucceeds(u, i, tok)
    THEN <<teams,
           Put(members, nextAuto, InvitedMember(invitations[i], u)),
           Put(userTeams, nextAuto, InvitedRef(invitations[i], u)),
           [invitations EXCEPT ![i] = Update(@, AcceptedFields(u))]>>
    ELSE IF EngineExpires(u, i, tok)
    THEN <<teams, members, userTeams,
           [invitations EXCEPT ![i] = Update(@, [status |-> "expired"])]>>
    ELSE store

\* the call of operation o in slot s settles in this step
Finishes(s, o) == calls[s].pc # "done" /\ calls'[s].pc = "done" /\ calls'[s].op = o

\* a call of operation o that its commit does not reject returns and leaves
\* what accept, run alone from the state before its last step, returns and leaves
RunsLikeEngine(o) ==
    \A s \in Slots :
        (Finishes(s, o) /\ calls'[s].result # "error")
            => LET c == calls'[s]
               IN  /\ (c.result = "success") <=> EngineSucceeds(c.caller, c.inviteId, c.token)
                   /\ store' = EngineStore(c.caller, c.inviteId, c.token)

\* the engine's accept, run alone, returns and leaves what EngineSucceeds and
\* EngineStore say
C32_EngineRun == [][RunsLikeEngine("accept")]_vars

\* C32: started from the same store state with the same inviteId, token and
\* caller, acceptInviteSecure returns the same success/failure outcome as
\* the engine's accept and leaves the same store state (invitation status,
\* Membership fields including invitedBy = invitation.createdBy, UserTeamRef).
C32_SecureMatchesEngine == [][RunsLikeEngine("secure")]_vars

\* ---------------------------------------------------------------------------
\* C33: verifyToken(t, hashToken(t)) is true for every token t, and
\* verifyToken(t2, hashToken(t1)) is false for every pair of tokens t1 # t2.
C33_VerifyToken ==
    \A s \in Slots :
        Returned(s, "verifyToken", "resolved")
            => (calls[s].value.valid <=> calls[s].token = calls[s].value.of)

\* a token has been verified against its own hash, with the hash that a
\* hashToken call gives for it
C33_Witness ==
    \E s \in Slots :
        /\ Returned(s, "verifyToken", "resolved")
        /\ calls[s].token = calls[s].value.of
        /\ calls[s].token = MaxCryptoTokens
        /\ calls[s].value.valid

\* a token has been verified against the hash of another token
C33_OtherToken ==
    \E s \in Slots :
        /\ Returned(s, "verifyToken", "resolved")
        /\ calls[s].token # calls[s].value.of
        /\ ~calls[s].value.valid

\* ---------------------------------------------------------------------------
\* the Memberships of team t with role owner
OwnerMembers(t) == {m \in DOMAIN members : members[m].teamId = t /\ members[m].role = "owner"}

\* C34: in every reachable state each team has exactly one Membership with
\* role owner, that Membership is active and its uid equals the team's
\* ownerUid: removeMember and updateMemberRole never delete it or change its
\* role, and accept never creates a Membership with role owner.
C34_OneOwner ==
    \A t \in DOMAIN teams :
        /\ Cardinality(OwnerMembers(t)) = 1
        /\ \A m \in OwnerMembers(t) :
                members[m].status = "active" /\ members[m].uid = teams[t].ownerUid

\* ---------------------------------------------------------------------------
\* the call in slot s takes a step: it starts or moves on (Return only hands
\* its result over)
Acts(s) == calls'[s] # calls[s] /\ calls'[s].op # "idle"

\* the token of call c verifies against the stored tokenHash of the invitation
\* it names
TokenVerifies(c) ==
    /\ c.inviteId \in DOMAIN invitations
    /\ hashToken(c.token) = invitations[c.inviteId].tokenHash

\* C35: no stored record changes without a valid token: no step of an accept
\* call or of a validateInviteToken call whose token does not verify against
\* the invitation's stored tokenHash changes a stored record, whatever the
\* invitation's status and expiresAt.
C35_NoChangeWithoutToken ==
    [][ \A s \in Slots :
            (Acts(s) /\ calls'[s].op \in {"accept", "validate"} /\ ~TokenVerifies(calls'[s]))
                => store' = store
      ]_vars

\* ---------------------------------------------------------------------------
\* invitation i is pending and the clock has passed its expiresAt
TimedOut(i) ==
    /\ i \in DOMAIN invitations
    /\ invitations[i].status = "pending"
    /\ now > invitations[i].expiresAt

\* C36: once the wall clock has passed the expiresAt of a pending invitation
\* (whether or not a read has yet written status = expired), that invitation
\* never reaches status accepted in any later state, whatever operations follow.
C36_NeverAcceptedAfterExpiry ==
    \A i \in InviteIds :
        [](TimedOut(i) => [](~(i \in DOMAIN invitations /\ invitations[i].status = "accepted")))

\* ---------------------------------------------------------------------------
\* C37: cancel and regenerate succeed only for a caller who, at the time of
\* the call, is the team owner or an active member of the invitation's team:
\* a creator whose Membership removeMember has since deleted can no longer
\* cancel or regenerate invitations of that team.
C37_ManageNeedsMembership ==
    [][ \A s \in Slots :
            ((Finishes(s, "cancel") \/ Finishes(s, "regenerate")) /\ calls'[s].result = "ok")
                => LET c == calls'[s]
                       t == invitations[c.inviteId].teamId
                   IN  \/ teams[t].ownerUid = c.caller
                       \/ HoldsRole(t, c.caller, {"owner", "admin", "member"})
      ]_vars

\* ---------------------------------------------------------------------------
\* the documents a and b agree on every field outside F
SameExcept(a, b, F) ==
    /\ DOMAIN a \ F = DOMAIN b \ F
    /\ \A k \in DOMAIN a \ F : a[k] = b[k]

\* a lazy expiry: an accept or validateInviteToken call settles as expired
Expires(s) ==
    (Finishes(s, "accept") \/ Finishes(s, "validate")) /\ calls'[s].result = "expired"

\* C38: frame of the invitation record.  After create, no operation changes
\* an invitation's teamId, email, role, createdBy or metadata (nor removes
\* the invitation); cancel and lazy expiry change only status (and
\* updatedAt); regenerate changes only tokenHash and expiresAt (and
\* updatedAt) and never status.
C38_InvitationFrame ==
    [][ \A i \in DOMAIN invitations :
            /\ i \in DOMAIN invitations'
            /\ \A k \in {"teamId", "email", "role", "createdBy", "metadata"} :
                    invitations'[i][k] = invitations[i][k]
            /\ \A s \in Slots :
                    /\ (Finishes(s, "cancel") \/ Expires(s))
                            => SameExcept(invitations[i], invitations'[i], {"status", "updatedAt"})
                    /\ Finishes(s, "regenerate")
                            => SameExcept(invitations[i], invitations'[i],
                                          {"tokenHash", "expiresAt", "updatedAt"})
      ]_vars

\* an invitation that was regenerated has been cancelled by the call that has
\* just settled
C38_Witness ==
    \E s \in Slots :
        /\ Returned(s, "cancel", "ok")
        /\ invitations[calls[s].inviteId].status = "cancelled"
        /\ Len(links[calls[s].inviteId]) >= 2
        /\ \E n \in DOMAIN links[calls[s].inviteId] : links[calls[s].inviteId][n].via = "regenerate"

\* ---------------------------------------------------------------------------
\* the email e belongs to an active member of team t
ActiveEmail(t, e) ==
    \E m \in DOMAIN members :
        /\ members[m].teamId = t
        /\ members[m].status = "active"
        /\ Canonical(members[m].email) = Canonical(e)

\* every invitation of team t for the canonical email e is non-pending or past
\* its expiresAt
NoLiveInvitation(t, e) ==
    \A i \in DOMAIN invitations :
        (invitations[i].teamId = t /\ invitations[i].email = Canonical(e))
            => (invitations[i].status # "pending" \/ now > invitations[i].expiresAt)

\* C39: create(teamId, email, role) by a caller who passes canInvite succeeds
\* whenever the email is not an active member of the team and every existing
\* invitation for (teamId, canonical email) is non-pending or already past its
\* expiresAt: an invitation that has timed out but was never touched does not
\* block a new invitation for the same email.
C39_TimedOutDoesNotBlock ==
    [][ \A s \in Slots :
            (/\ calls[s].op = "create"
             /\ Finishes(s, "create")
             /\ calls[s].teamId \in DOMAIN teams
             /\ MayInvite(calls[s].teamId, calls[s].caller)
             /\ ~ActiveEmail(calls[s].teamId, calls[s].email)
             /\ NoLiveInvitation(calls[s].teamId, calls[s].email))
                => calls'[s].result = "ok"
      ]_vars

\* ---------------------------------------------------------------------------
\* the active Memberships of team t
ActiveMembers(t) == {m \in DOMAIN members : members[m].teamId = t /\ members[m].status = "active"}

\* C40: in every reachable state the number of active Memberships of a team
\* is at most that team's settings.maxMembers: accept does not add a
\* Membership to a team that already has maxMembers active members.
C40_MaxMembers ==
    \A t \in DOMAIN teams : Cardinality(ActiveMembers(t)) <= teams[t].maxMembers

=============================================================================
